---------------------------- MODULE Spec2Model ----------------------------
(***************************************************************************)
(* Model of the backtesting core of Infinity_Portal:                       *)
(*   src/backtest/backtest_engine.py    BacktestEngine                     *)
(*   src/backtest/performance_metrics.py PerformanceMetrics                *)
(*   src/backtest/benchmark_comparison.py BenchmarkComparison              *)
(* and of two advisers of the portal:                                      *)
(*   src/infinity_portal/divergence_detector.py                            *)
(*                                   SentimentPriceDivergenceDetector      *)
(*   src/infinity_portal/trader_interface.py TraderQuestionnaire           *)
(*                                                                         *)
(* Specifications: Spec, one run of run_backtest; SpecPair, two runs that  *)
(* share a prefix of their series; SpecInputs, a run on unchecked data;    *)
(* SpecTwice, the same run made twice; SpecMetrics, the metric and         *)
(* benchmark functions called on their own; SpecMulti,                     *)
(* run_multiple_backtests; SpecStall, the same with a window that may      *)
(* never return, under weak fairness; SpecPortal, the detector and the     *)
(* questionnaire called on their own.                                      *)
(*                                                                         *)
(* BacktestEngine.run_backtest fetches a price series, obtains a pair of   *)
(* boolean signal series from the strategy and hands them to               *)
(* vbt.Portfolio.from_signals(close, entries, exits, init_cash,            *)
(* fees=0.001, slippage=0.0005).  The call leaves every other argument at  *)
(* the library default: size = inf (all cash), direction = longonly,       *)
(* accumulate = False, upon_long_conflict = ignore.  The bar walk below    *)
(* is that simulation, one action per bar.                                 *)
(*                                                                         *)
(* Money is a positive rational times powers of the four cost factors      *)
(* (1+fees), (1+slippage), (1-fees), (1-slippage).  The factors are kept   *)
(* symbolic as exponents so that the arithmetic is exact: the rational     *)
(* part stays small and two amounts are equal iff their records are equal. *)
(* Bars are numbered 1..n here (0..n-1 in the source).                     *)
(***************************************************************************)
EXTENDS Integers, Sequences, FiniteSets, TLC

(***************************************************************************)
(* Bounds of the model.                                                    *)
(***************************************************************************)
\* longest price series of a run
MaxBars == 4
\* longest price series of the two runs compared for lookahead
MaxBarsPair == 3

(***************************************************************************)
(* Program constants.                                                      *)
(***************************************************************************)
\* fees=0.001 = FeesNum / FeesDen
FeesNum == 1
FeesDen == 1000
\* slippage=0.0005 = SlippageNum / SlippageDen
SlippageNum == 1
SlippageDen == 2000
\* initial_capital: float = 100000
DefaultInitialCapital == 100000
\* risk_free_rate: float = 0.02 = RiskFreeNum / RiskFreeDen, per day / 252
RiskFreeNum == 2
RiskFreeDen == 100
TradingDays == 252

(***************************************************************************)
(* Exact arithmetic.                                                       *)
(***************************************************************************)
RECURSIVE GCD(_, _)
GCD(a, b) == IF b = 0 THEN a ELSE GCD(b, a % b)

Abs(x) == IF x < 0 THEN -x ELSE x

NoExp == <<0, 0, 0, 0>>

\* The amount (n / d) * (1+fees)^e[1] * (1+slippage)^e[2]
\*                    * (1-fees)^e[3] * (1-slippage)^e[4], in lowest terms.
MRat(n, d) ==
    IF n = 0 THEN [n |-> 0, d |-> 1, e |-> NoExp]
    ELSE LET g == GCD(Abs(n), d) IN [n |-> n \div g, d |-> d \div g, e |-> NoExp]

MInt(k) == MRat(k, 1)

Zero == MInt(0)
One == MInt(1)

MMul(a, b) ==
    IF a.n = 0 \/ b.n = 0 THEN Zero
    ELSE LET g1 == GCD(Abs(a.n), b.d)
             g2 == GCD(Abs(b.n), a.d)
         IN  [n |-> (a.n \div g1) * (b.n \div g2),
              d |-> (a.d \div g2) * (b.d \div g1),
              e |-> [k \in 1..4 |-> a.e[k] + b.e[k]]]

MInv(a) ==
    [n |-> IF a.n < 0 THEN -a.d ELSE a.d,
     d |-> Abs(a.n),
     e |-> [k \in 1..4 |-> -a.e[k]]]

MDiv(a, b) == MMul(a, MInv(b))

OnePlusFees == [n |-> 1, d |-> 1, e |-> <<1, 0, 0, 0>>]
OnePlusSlippage == [n |-> 1, d |-> 1, e |-> <<0, 1, 0, 0>>]
OneMinusFees == [n |-> 1, d |-> 1, e |-> <<0, 0, 1, 0>>]
OneMinusSlippage == [n |-> 1, d |-> 1, e |-> <<0, 0, 0, 1>>]
FeesRate == MRat(FeesNum, FeesDen)

\* Natural logarithms of the four cost factors 1.001, 1.0005, 0.999, 0.9995
\* in units of 1e-9, each within one unit of the true value.
LogWeight == <<999500, 499875, -1000500, -500125>>

\* Raised when an order comparison cannot be decided within the precision
\* of the bounds below: evaluation stops instead of guessing.
Undecided == CHOOSE x \in {} : TRUE

\* a < b, for amounts a >= 0 and b > 0.  With q = a / b = (n/d) * F, F the
\* product of the cost factors, ln F = X * 1e-9 up to m units, so
\*   1 + x - err <= F <= 1 + x + err + x^2.
\* F is bounded in units of 1e-3 first, then of 1e-5.
MLess(a, b) ==
    IF a.n <= 0 THEN b.n > 0
    ELSE
    LET q == MDiv(a, b)
        X == q.e[1] * LogWeight[1] + q.e[2] * LogWeight[2]
             + q.e[3] * LogWeight[3] + q.e[4] * LogWeight[4]
        m == Abs(q.e[1]) + Abs(q.e[2]) + Abs(q.e[3]) + Abs(q.e[4])
        u == (Abs(X) + m) \div 1000 + 1
        Flo == 100000 + ((X - m) \div 10000)
        Fhi == 100000 + ((X + m) \div 10000) + 1 + ((u * u) \div 10000000) + 1
        FloCoarse == Flo \div 100
        FhiCoarse == (Fhi \div 100) + 1
    IN  IF q.n = q.d
        THEN IF X + m < 0 THEN TRUE
             ELSE IF X - m >= 0 THEN FALSE
             ELSE Undecided
        ELSE IF q.n > 2000000 \/ q.d > 2000000 THEN Undecided
             ELSE IF q.n * FhiCoarse < q.d * 1000 THEN TRUE
             ELSE IF q.n * FloCoarse >= q.d * 1000 THEN FALSE
             ELSE IF q.n > 20000 \/ q.d > 20000 THEN Undecided
             ELSE IF q.n * Fhi < q.d * 100000 THEN TRUE
             ELSE IF q.n * Flo >= q.d * 100000 THEN FALSE
             ELSE Undecided

\* a + b where one of the two is zero or both carry the same cost factors.
MAdd(a, b) ==
    IF a.n = 0 THEN b
    ELSE IF b.n = 0 THEN a
    ELSE IF a.e = b.e
         THEN LET r == MRat(a.n * b.d + b.n * a.d, a.d * b.d)
              IN  [n |-> r.n, d |-> r.d, e |-> IF r.n = 0 THEN NoExp ELSE a.e]
         ELSE Undecided

(***************************************************************************)
(* State.                                                                  *)
(***************************************************************************)
VARIABLES
    pc,               \* position of run_backtest
    initial_capital,  \* run_backtest(initial_capital=...)
    price_data,       \* price_data['Close'], <<>> before the fetch
    entries,          \* strategy.generate_signals(...)[0]
    exits,            \* strategy.generate_signals(...)[1]
    portfolio,        \* the vbt.Portfolio being simulated
    results,          \* what run_backtest returns
    all_metrics,      \* PerformanceMetrics.calculate_all_metrics of the run
    alt,              \* a second run's inputs: close, entries, exits
    alt_portfolio,    \* the second run's vbt.Portfolio
    call,             \* one call of a metric function: arguments, result
    multi             \* run_multiple_backtests: periods, position, results

vars == <<pc, initial_capital, price_data, entries, exits, portfolio,
          results, all_metrics, alt, alt_portfolio, call, multi>>

altvars == <<alt, alt_portfolio>>

auxvars == <<call, multi>>

\* closes: what matters of a price is its ratio to the other prices
Prices == {1, 2}

PriceSeries == UNION {[1..n -> Prices] : n \in 1..MaxBars}

SignalSeries(n) == [1..n -> BOOLEAN]

InitialCapitals == {DefaultInitialCapital, 50000}

NoResults == [error |-> "pending"]

NoMetrics == [computed |-> FALSE]

NoAlt == [close |-> <<>>, entries |-> <<>>, exits |-> <<>>, agree |-> 0]

NoCall == [fn |-> "none"]

NoMulti == [returned |-> FALSE]

(***************************************************************************)
(* vbt.Portfolio.from_signals: the simulation of one bar.                  *)
(***************************************************************************)
\* init_cash=initial_capital, no position, no orders, no value yet.
NewPortfolio(init_cash) ==
    [cash |-> MInt(init_cash),
     position |-> Zero,
     order_records |-> <<>>,
     value |-> <<>>]

\* Variants of the conflict rule: the entry wins; the exit wins.
ResolveSignalConflict_EntryWins(is_entry, is_exit) ==
    IF is_entry /\ is_exit THEN <<TRUE, FALSE>> ELSE <<is_entry, is_exit>>

ResolveSignalConflict_ExitWins(is_entry, is_exit) ==
    IF is_entry /\ is_exit THEN <<FALSE, TRUE>> ELSE <<is_entry, is_exit>>

\* upon_long_conflict is left at its default, ignore: an entry and an exit
\* on the same bar cancel each other.
ResolveSignalConflict(is_entry, is_exit) ==
    IF is_entry /\ is_exit THEN <<FALSE, FALSE>> ELSE <<is_entry, is_exit>>

\* direction = longonly, accumulate = False: an entry buys only from a flat
\* position, an exit sells only an open one, all of it.
SignalToSide(position, is_entry, is_exit) ==
    IF is_entry /\ position = Zero THEN "Buy"
    ELSE IF is_exit /\ position # Zero THEN "Sell"
    ELSE "None"

\* Variant: the fees are not set aside, all the cash buys shares.
BuyOrder_FeesNotReserved(cash, close, idx) ==
    LET adj_price == MMul(MInt(close), OnePlusSlippage)
    IN  [idx |-> idx, side |-> "Buy",
         size |-> MDiv(cash, adj_price),
         price |-> adj_price,
         fees |-> MMul(cash, FeesRate),
         cash_flow |-> cash]

\* Buy with size = inf: all the cash is spent, fees included.
\*   adj_price = close * (1 + slippage); max_req_cash = cash / (1 + fees)
\*   size = max_req_cash / adj_price;    fees_paid = cash - max_req_cash
BuyOrder(cash, close, idx) ==
    LET adj_price == MMul(MInt(close), OnePlusSlippage)
        max_req_cash == MDiv(cash, OnePlusFees)
    IN  [idx |-> idx, side |-> "Buy",
         size |-> MDiv(max_req_cash, adj_price),
         price |-> adj_price,
         fees |-> MMul(max_req_cash, FeesRate),
         cash_flow |-> cash]

\* Sell the whole position.
\*   adj_price = close * (1 - slippage); acq_cash = size * adj_price
\*   fees_paid = acq_cash * fees;        cash += acq_cash - fees_paid
SellOrder(position, close, idx) ==
    LET adj_price == MMul(MInt(close), OneMinusSlippage)
        acq_cash == MMul(position, adj_price)
    IN  [idx |-> idx, side |-> "Sell",
         size |-> position,
         price |-> adj_price,
         fees |-> MMul(acq_cash, FeesRate),
         cash_flow |-> MMul(acq_cash, OneMinusFees)]

\* Variant: the position is counted as owed, not owned.
PortfolioValue_Owed(cash, position, close) ==
    MAdd(cash, MMul(MMul(position, MInt(-1)), MInt(close)))

\* Variant: the cash is counted in units of the asset and marked to the
\* close like the position.
PortfolioValue_CashMarked(cash, position, close) ==
    MAdd(MMul(cash, MInt(close)), MMul(position, MInt(close)))

\* Portfolio.value() at one bar: cash + position * close.
PortfolioValue(cash, position, close) ==
    MAdd(cash, MMul(position, MInt(close)))

\* Variant: the order of bar k is priced at the next bar's close.
SignalBar_NextClose(close, ent, ex, k) ==
    [close |-> close[IF k < Len(close) THEN k + 1 ELSE k],
     is_entry |-> ent[k], is_exit |-> ex[k]]

\* The bar of the walk that reads close[k], entries[k], exits[k].
SignalBar(close, ent, ex, k) ==
    [close |-> close[k], is_entry |-> ent[k], is_exit |-> ex[k]]

\* One bar of the simulation: resolve the signals, execute the order if
\* there is one, then record the value of the portfolio at the close.
FromSignalsBar(pf, close, ent, ex, k) ==
    LET bar == SignalBar(close, ent, ex, k)
        sig == ResolveSignalConflict(bar.is_entry, bar.is_exit)
        side == SignalToSide(pf.position, sig[1], sig[2])
        buy == BuyOrder(pf.cash, bar.close, k)
        sell == SellOrder(pf.position, bar.close, k)
        cash == IF side = "Buy" /\ pf.cash # Zero THEN Zero
                ELSE IF side = "Sell" THEN MAdd(pf.cash, sell.cash_flow)
                ELSE pf.cash
        position == IF side = "Buy" /\ pf.cash # Zero THEN buy.size
                    ELSE IF side = "Sell" THEN Zero
                    ELSE pf.position
        orders == IF side = "Buy" /\ pf.cash # Zero
                      THEN Append(pf.order_records, buy)
                  ELSE IF side = "Sell" THEN Append(pf.order_records, sell)
                  ELSE pf.order_records
    IN  [cash |-> cash,
         position |-> position,
         order_records |-> orders,
         value |-> Append(pf.value, PortfolioValue(cash, position, bar.close))]

\* Number of bars simulated so far.
BarsDone(pf) == Len(pf.value)

(***************************************************************************)
(* portfolio.trades: the trade records derived from the orders.  Orders    *)
(* alternate Buy, Sell, Buy, ...; each Buy/Sell pair is a closed trade.  A *)
(* position still open after the last bar is a record too, of status Open, *)
(* its exit set at the last bar's close with no exit fees.                 *)
(***************************************************************************)
ClosedTrade(buy, sell) ==
    [entry_idx |-> buy.idx, exit_idx |-> sell.idx,
     size |-> buy.size,
     entry_price |-> buy.price, exit_price |-> sell.price,
     entry_fees |-> buy.fees, exit_fees |-> sell.fees,
     cost |-> buy.cash_flow, proceeds |-> sell.cash_flow,
     status |-> "Closed"]

OpenTrade(buy, close) ==
    [entry_idx |-> buy.idx, exit_idx |-> Len(close),
     size |-> buy.size,
     entry_price |-> buy.price, exit_price |-> MInt(close[Len(close)]),
     entry_fees |-> buy.fees, exit_fees |-> Zero,
     cost |-> buy.cash_flow,
     proceeds |-> MMul(buy.size, MInt(close[Len(close)])),
     status |-> "Open"]

\* The closed trades of a sequence of orders, in order.
ClosedTrades(orders) ==
    [k \in 1..(Len(orders) \div 2) |->
        ClosedTrade(orders[2 * k - 1], orders[2 * k])]

\* portfolio.trades: closed trades, then the open one if there is one.
Trades(orders, close) ==
    IF Len(orders) % 2 = 1
    THEN Append(ClosedTrades(orders), OpenTrade(orders[Len(orders)], close))
    ELSE ClosedTrades(orders)

\* pnl = (exit_price - entry_price) * size - entry_fees - exit_fees
\*     = proceeds - cost
PnlPositive(t) == MLess(t.cost, t.proceeds)
PnlNegative(t) == MLess(t.proceeds, t.cost)

\* portfolio.returns(): value[t] / value[t-1] - 1, the first against
\* init_cash.  Kept as the growth factor g = 1 + return.
Returns(value, init_cash) ==
    [t \in 1..Len(value) |->
        MDiv(value[t], IF t = 1 THEN MInt(init_cash) ELSE value[t - 1])]

(***************************************************************************)
(* BacktestEngine._calculate_metrics.  A percentage (x - 1) * 100 is kept  *)
(* as its growth factor x: two percentages are equal iff the factors are.  *)
(***************************************************************************)
\* portfolio.total_return() * 100 = (final_value - init_cash) / init_cash * 100
TotalReturn(pf, init_cash) ==
    MDiv(pf.value[Len(pf.value)], MInt(init_cash))

\* portfolio.trades.count()
TotalTrades(pf, close) == Len(Trades(pf.order_records, close))

CalculateMetrics(pf, close, init_cash) ==
    [error |-> "none",
     total_return |-> TotalReturn(pf, init_cash),
     total_trades |-> TotalTrades(pf, close),
     final_portfolio_value |-> pf.value[Len(pf.value)]]

(***************************************************************************)
(* PerformanceMetrics.  A ratio whose value is not 0, nan or inf by one of *)
(* the code's branches is kept as "value": its magnitude (a quotient by a  *)
(* square root) is not computed.                                           *)
(***************************************************************************)
\* 1 + risk_free_rate / 252: excess = returns - risk_free_rate / 252 is
\* negative iff the growth factor is below this.
RiskFreeGrowth ==
    MRat(RiskFreeDen * TradingDays + RiskFreeNum, RiskFreeDen * TradingDays)

\* pandas Series.std() (ddof = 1): nan below two points, 0 iff all equal.
\* Subtracting the daily risk-free rate from every point does not change it.
Std(xs) ==
    IF Len(xs) < 2 THEN "nan"
    ELSE IF \A t \in 1..Len(xs) : xs[t] = xs[1] THEN "zero"
    ELSE "value"

\* calculate_sharpe_ratio: 0.0 if std == 0, else mean / std * sqrt(252);
\* a nan std is not == 0 and makes the quotient nan.
CalculateSharpeRatio(returns) ==
    LET std == Std(returns)
    IN  IF std = "zero" THEN "zero"
        ELSE IF std = "nan" THEN "nan"
        ELSE "value"

IsDownside(g) == MLess(g, RiskFreeGrowth)

\* calculate_sortino_ratio: 0.0 if there is no downside return or their
\* std == 0, else mean / downside std * sqrt(252).
CalculateSortinoRatio(returns) ==
    LET downside_returns == SelectSeq(returns, IsDownside)
        std == Std(downside_returns)
    IN  IF Len(downside_returns) = 0 \/ std = "zero" THEN "zero"
        ELSE IF std = "nan" THEN "nan"
        ELSE "value"

\* Variant: the peak is the value itself, no maximum is carried along.
CumMax_Last(equity_curve, t) == equity_curve[t]

\* equity_curve.cummax() at t
CumMax(equity_curve, t) ==
    CHOOSE x \in {equity_curve[s] : s \in 1..t} :
        \A s \in 1..t : ~MLess(x, equity_curve[s])

\* calculate_max_drawdown: abs(min((E - cummax) / cummax)) * 100, kept as
\* the least E[t] / cummax[t]: the drawdown is (1 - that) * 100.
CalculateMaxDrawdown(equity_curve) ==
    LET ratio == [t \in 1..Len(equity_curve) |->
                    MDiv(equity_curve[t], CumMax(equity_curve, t))]
    IN  CHOOSE r \in {ratio[t] : t \in 1..Len(equity_curve)} :
            \A t \in 1..Len(equity_curve) : ~MLess(ratio[t], r)

\* calculate_calmar_ratio: 0.0 if max_drawdown == 0, else
\* annual_return / (max_drawdown / 100).
CalculateCalmarRatio(returns, max_drawdown) ==
    IF max_drawdown = One THEN "zero" ELSE "value"

\* calculate_win_rate: 0.0 for no trades, else winning / all * 100.
CalculateWinRate(trades) ==
    IF Len(trades) = 0 THEN Zero
    ELSE MRat(100 * Cardinality({k \in 1..Len(trades) : PnlPositive(trades[k])}),
              Len(trades))

\* Variant: without a losing trade the factor is 0.0, never inf.
CalculateProfitFactor_NoInf(trades) ==
    IF \A k \in 1..Len(trades) : ~PnlNegative(trades[k]) THEN "zero"
    ELSE IF \E k \in 1..Len(trades) : PnlPositive(trades[k]) THEN "value"
    ELSE "zero"

\* calculate_profit_factor: 0.0 for no trades; with no losing trade, inf if
\* some trade wins, else 0.0; else gross_profit / gross_loss.
CalculateProfitFactor(trades) ==
    LET gross_profit_positive == \E k \in 1..Len(trades) : PnlPositive(trades[k])
        gross_loss_zero == \A k \in 1..Len(trades) : ~PnlNegative(trades[k])
    IN  IF Len(trades) = 0 THEN "zero"
        ELSE IF gross_loss_zero
             THEN IF gross_profit_positive THEN "inf" ELSE "zero"
        ELSE IF gross_profit_positive THEN "value" ELSE "zero"

\* 'total_return': ((equity_curve.iloc[-1] / equity_curve.iloc[0]) - 1) * 100
AllMetricsTotalReturn(equity_curve) ==
    MDiv(equity_curve[Len(equity_curve)], equity_curve[1])

CalculateAllMetrics(returns, equity_curve, trades) ==
    LET max_dd == CalculateMaxDrawdown(equity_curve)
    IN  [computed |-> TRUE,
         sharpe_ratio |-> CalculateSharpeRatio(returns),
         sortino_ratio |-> CalculateSortinoRatio(returns),
         max_drawdown |-> max_dd,
         calmar_ratio |-> CalculateCalmarRatio(returns, max_dd),
         win_rate |-> CalculateWinRate(trades),
         profit_factor |-> CalculateProfitFactor(trades),
         total_return |-> AllMetricsTotalReturn(equity_curve)]

(***************************************************************************)
(* BacktestEngine.run_backtest.                                            *)
(***************************************************************************)
Init ==
    /\ pc = "fetch"
    /\ initial_capital \in InitialCapitals
    /\ price_data = <<>>
    /\ entries = <<>>
    /\ exits = <<>>
    /\ portfolio = NewPortfolio(0)
    /\ results = NoResults
    /\ all_metrics = NoMetrics
    /\ alt = NoAlt
    /\ alt_portfolio = NewPortfolio(0)
    /\ call = NoCall
    /\ multi = NoMulti

\* price_data = self.fetch_historical_data(ticker, years): a series of
\* closes, or None when the download is empty or raises.
FetchHistoricalData ==
    /\ pc = "fetch"
    /\ \E data \in PriceSeries :
          /\ price_data' = data
          /\ pc' = "signals"
    /\ UNCHANGED <<initial_capital, entries, exits, portfolio, results,
                   all_metrics, altvars, auxvars>>

\* Variant: the exception leaves run_backtest instead of being returned.
Except_Reraise(e) == [pc |-> "raised", results |-> NoResults]

\* except Exception as e: ... return {'error': str(e)}
Except(e) == [pc |-> "done", results |-> [error |-> e]]

\* The exceptions of a run on well-formed data, by where they are raised:
\* exec(algorithm_code) / strategy_class(params={}) / generate_signals, and
\* _calculate_metrics / _compare_with_benchmark's callers.
StrategyError == "strategy raised"
MetricsError == "metrics raised"

\* if price_data is None: return {'error': 'Data fetch failed'}
DataFetchFailed ==
    /\ pc = "fetch"
    /\ pc' = "done"
    /\ results' = [error |-> "Data fetch failed"]
    /\ UNCHANGED <<initial_capital, price_data, entries, exits, portfolio,
                   all_metrics, altvars, auxvars>>

\* if not strategy_class: return {'error': 'No strategy class found in code'}
NoStrategyClass ==
    /\ pc = "signals"
    /\ pc' = "done"
    /\ results' = [error |-> "No strategy class found in code"]
    /\ UNCHANGED <<initial_capital, price_data, entries, exits, portfolio,
                   all_metrics, altvars, auxvars>>

\* exec(algorithm_code, exec_globals), strategy_class(params={}) or
\* strategy.generate_signals(...) raises: caught by the except clause.
StrategyRaises ==
    /\ pc = "signals"
    /\ pc' = Except(StrategyError).pc
    /\ results' = Except(StrategyError).results
    /\ UNCHANGED <<initial_capital, price_data, entries, exits, portfolio,
                   all_metrics, altvars, auxvars>>

\* entries, exits = strategy.generate_signals(price_data, ...): any pair of
\* boolean series over the bars of price_data.
GenerateSignals ==
    /\ pc = "signals"
    /\ \E ent \in SignalSeries(Len(price_data)),
          ex \in SignalSeries(Len(price_data)) :
          /\ entries' = ent
          /\ exits' = ex
    /\ portfolio' = NewPortfolio(initial_capital)
    /\ pc' = "simulate"
    /\ UNCHANGED <<initial_capital, price_data, results, all_metrics, altvars, auxvars>>

\* vbt.Portfolio.from_signals, the next bar.
SimulateBar ==
    /\ pc = "simulate"
    /\ BarsDone(portfolio) < Len(price_data)
    /\ portfolio' = FromSignalsBar(portfolio, price_data, entries, exits,
                                   BarsDone(portfolio) + 1)
    /\ UNCHANGED <<pc, initial_capital, price_data, entries, exits, results,
                   all_metrics, altvars, auxvars>>

\* results = self._calculate_metrics(portfolio, price_data, ticker); the
\* metrics of PerformanceMetrics are taken of the same run.
ReportMetrics ==
    /\ pc = "simulate"
    /\ BarsDone(portfolio) = Len(price_data)
    /\ results' = CalculateMetrics(portfolio, price_data, initial_capital)
    /\ all_metrics' = CalculateAllMetrics(
                          Returns(portfolio.value, initial_capital),
                          portfolio.value,
                          Trades(portfolio.order_records, price_data))
    /\ pc' = "done"
    /\ UNCHANGED <<initial_capital, price_data, entries, exits, portfolio,
                   altvars, auxvars>>

\* self._calculate_metrics(...) raises after the simulation: caught by the
\* except clause, no report is returned.
MetricsRaise ==
    /\ pc = "simulate"
    /\ BarsDone(portfolio) = Len(price_data)
    /\ pc' = Except(MetricsError).pc
    /\ results' = Except(MetricsError).results
    /\ UNCHANGED <<initial_capital, price_data, entries, exits, portfolio,
                   all_metrics, altvars, auxvars>>

Next ==
    \/ FetchHistoricalData
    \/ DataFetchFailed
    \/ NoStrategyClass
    \/ StrategyRaises
    \/ GenerateSignals
    \/ SimulateBar
    \/ ReportMetrics
    \/ MetricsRaise

Spec == Init /\ [][Next]_vars

(***************************************************************************)
(* Two runs of the simulation side by side.  The second run's series agree *)
(* with the first on bars 1..alt.agree and repeat one arbitrary bar after  *)
(* that.  Any two runs that agree on a prefix both agree on it with such a *)
(* run, so comparing every run with these compares every pair.             *)
(***************************************************************************)
PriceSeriesPair == UNION {[1..n -> Prices] : n \in 2..MaxBarsPair}

\* The series s up to bar t, then the value v on every later bar.
WithSuffix(s, t, v) == [k \in 1..Len(s) |-> IF k <= t THEN s[k] ELSE v]

PairInputs ==
    /\ pc = "fetch"
    /\ \E data \in PriceSeriesPair :
       \E ent \in SignalSeries(Len(data)), ex \in SignalSeries(Len(data)) :
       \E t \in 1..(Len(data) - 1) :
       \E p \in Prices, e \in BOOLEAN, x \in BOOLEAN :
          /\ price_data' = data
          /\ entries' = ent
          /\ exits' = ex
          /\ alt' = [close |-> WithSuffix(data, t, p),
                     entries |-> WithSuffix(ent, t, e),
                     exits |-> WithSuffix(ex, t, x),
                     agree |-> t]
    /\ portfolio' = NewPortfolio(initial_capital)
    /\ alt_portfolio' = NewPortfolio(initial_capital)
    /\ pc' = "simulate"
    /\ UNCHANGED <<initial_capital, results, all_metrics, auxvars>>

PairBar ==
    /\ pc = "simulate"
    /\ BarsDone(portfolio) < Len(price_data)
    /\ portfolio' = FromSignalsBar(portfolio, price_data, entries, exits,
                                   BarsDone(portfolio) + 1)
    /\ alt_portfolio' = FromSignalsBar(alt_portfolio, alt.close, alt.entries,
                                       alt.exits, BarsDone(alt_portfolio) + 1)
    /\ UNCHANGED <<pc, initial_capital, price_data, entries, exits, results,
                   all_metrics, alt, auxvars>>

NextPair ==
    \/ PairInputs
    \/ PairBar

SpecPair == Init /\ [][NextPair]_vars

(***************************************************************************)
(* The run as the claims speak of it.                                      *)
(***************************************************************************)
Long(pf) == pf.position # Zero

\* The trade ledger: the closed round trips.
Ledger(pf) == ClosedTrades(pf.order_records)

\* A bar of the simulation is about to be walked, and which.
Walking == pc = "simulate" /\ BarsDone(portfolio) < Len(price_data)
Bar == BarsDone(portfolio) + 1

\* The orders placed before bar k, on bar k.
OrdersBefore(pf, k) == SelectSeq(pf.order_records, LAMBDA o : o.idx < k)
OrdersOn(pf, k) == SelectSeq(pf.order_records, LAMBDA o : o.idx = k)

\* Whether the position was open when bar k began.
LongBefore(pf, k) == Len(OrdersBefore(pf, k)) % 2 = 1

Reported == pc = "done" /\ results.error = "none"

IsPrefix(s, t) == Len(s) <= Len(t) /\ SubSeq(t, 1, Len(s)) = s

(***************************************************************************)
(* Claims.                                                                 *)
(***************************************************************************)
\* Orders alternate Buy, Sell from a Buy; the position is open iff the last
\* order is a Buy, holds that order's size, and all the cash is in it.
OnePosition(pf) ==
    /\ \A j \in 1..Len(pf.order_records) :
          pf.order_records[j].side = IF j % 2 = 1 THEN "Buy" ELSE "Sell"
    /\ Long(pf) <=> (Len(pf.order_records) % 2 = 1)
    /\ Long(pf) =>
          /\ pf.position = pf.order_records[Len(pf.order_records)].size
          /\ pf.cash = Zero
    /\ ~Long(pf) => pf.position = Zero

\* C1: the position is always FLAT or LONG with at most one position open;
\* an enter signal on a bar where the position is LONG places no buy order
\* and leaves the open position (entry bar, entry price, quantity) as it
\* was; an exit signal on a bar where the position is FLAT changes neither
\* the position, the cash nor the trade ledger.
C1_OnePositionNoOps ==
    /\ [](pc = "simulate" => OnePosition(portfolio))
    /\ [][Walking =>
            /\ (entries[Bar] /\ Long(portfolio)) =>
                  /\ \A j \in 1..Len(portfolio'.order_records) :
                        portfolio'.order_records[j].idx = Bar
                            => portfolio'.order_records[j].side # "Buy"
                  /\ Long(portfolio') =>
                        /\ portfolio'.position = portfolio.position
                        /\ portfolio'.order_records = portfolio.order_records
            /\ (exits[Bar] /\ ~Long(portfolio)) =>
                  /\ portfolio'.position = portfolio.position
                  /\ portfolio'.cash = portfolio.cash
                  /\ Ledger(portfolio') = Ledger(portfolio)]_vars

\* Both no-ops have happened: an enter signal on a bar that began LONG and
\* an exit signal on a bar that began FLAT.
C1_Witness ==
    /\ pc = "simulate"
    /\ \E k \in 1..BarsDone(portfolio) : entries[k] /\ LongBefore(portfolio, k)
    /\ \E k \in 1..BarsDone(portfolio) : exits[k] /\ ~LongBefore(portfolio, k)

C3_EnterThenExitPriority ==
    [][(Walking /\ entries[Bar] /\ exits[Bar]) =>
          IF ~Long(portfolio)
          THEN /\ Long(portfolio')
               /\ Ledger(portfolio') = Ledger(portfolio)
          ELSE /\ ~Long(portfolio')
               /\ Len(Ledger(portfolio')) = Len(Ledger(portfolio)) + 1]_vars

\* C3 amended: with enter and exit both true on a bar, neither is
\* executed: a FLAT position stays FLAT, a LONG position stays LONG with
\* the same quantity, no order is placed and no trade is appended.
C3_ConflictIgnored ==
    [][(Walking /\ entries[Bar] /\ exits[Bar]) =>
          /\ portfolio'.position = portfolio.position
          /\ portfolio'.cash = portfolio.cash
          /\ portfolio'.order_records = portfolio.order_records
          /\ Ledger(portfolio') = Ledger(portfolio)
          /\ BarsDone(portfolio') = Bar]_vars

\* Both signals were true on a bar that began FLAT and on one that began
\* LONG.
C3_Witness ==
    /\ pc = "simulate"
    /\ \E k \in 1..BarsDone(portfolio) :
          entries[k] /\ exits[k] /\ ~LongBefore(portfolio, k)
    /\ \E k \in 1..BarsDone(portfolio) :
          entries[k] /\ exits[k] /\ LongBefore(portfolio, k)

LastClose == price_data[Len(price_data)]
FinalValue == portfolio.value[Len(portfolio.value)]

\* The bars on which an exit was executed.
ExitBars == {k \in 1..Len(price_data) :
                \E j \in 1..Len(portfolio.order_records) :
                    /\ portfolio.order_records[j].idx = k
                    /\ portfolio.order_records[j].side = "Sell"}

\* C4: a position still LONG after the final bar is marked to market in
\* the final equity value, and is no trade: total_trades is the number of
\* bars on which an exit was executed.
C4_OpenPositionNotCounted ==
    Reported =>
        /\ Long(portfolio) =>
              /\ FinalValue = MMul(portfolio.position, MInt(LastClose))
              /\ results.final_portfolio_value = FinalValue
        /\ results.total_trades = Cardinality(ExitBars)
        /\ results.total_trades = Len(Ledger(portfolio))

\* C6: the equity-curve value is never negative.
C6_EquityNeverNegative ==
    \A t \in 1..Len(portfolio.value) : portfolio.value[t].n >= 0

\* The walk is over, a round trip was closed and the equity has been below
\* the initial capital.
C6_Witness ==
    /\ pc = "simulate"
    /\ BarsDone(portfolio) = Len(price_data)
    /\ Len(Ledger(portfolio)) >= 1
    /\ \E t \in 1..Len(portfolio.value) :
          MLess(portfolio.value[t], MInt(initial_capital))

\* C7 as stated: the equity curve has one entry per price bar and its first
\* entry equals initial_capital, also when an enter is executed on the
\* first bar.
C7_StartsAtInitialCapital ==
    /\ Len(portfolio.value) >= 1 => portfolio.value[1] = MInt(initial_capital)
    /\ Reported => Len(portfolio.value) = Len(price_data)

\* C7 amended: the equity curve has one entry per price bar; its first
\* entry equals initial_capital unless an enter is executed on the first
\* bar (enter true, exit false), and then it is
\* initial_capital / ((1 + fees) * (1 + slippage)).
C7_StartsAfterEntryCosts ==
    /\ Len(portfolio.value) >= 1 =>
          portfolio.value[1] =
              IF entries[1] /\ ~exits[1]
              THEN MDiv(MInt(initial_capital), MMul(OnePlusFees, OnePlusSlippage))
              ELSE MInt(initial_capital)
    /\ Len(portfolio.value) <= Len(price_data)
    /\ Reported => Len(portfolio.value) = Len(price_data)

\* A run of several bars that entered on its first bar was reported.
C7_Witness ==
    /\ Reported
    /\ Len(price_data) >= 2
    /\ entries[1] /\ ~exits[1]
    /\ Long(portfolio)

\* C8: total_return is (final_value - initial_capital) / initial_capital
\* * 100, with the caller's initial_capital, in the engine's report and in
\* calculate_all_metrics.
C8_TotalReturnOnInitialCapital ==
    Reported =>
        /\ results.total_return = MDiv(FinalValue, MInt(initial_capital))
        /\ all_metrics.total_return = MDiv(FinalValue, MInt(initial_capital))

\* C9: with no enter signal the ledger is empty, the equity curve is flat
\* at initial_capital and win_rate, profit_factor, sharpe, sortino, calmar
\* and max_drawdown are all 0.
C9_NoEnterAllZero ==
    (Reported /\ \A k \in 1..Len(entries) : ~entries[k]) =>
        /\ Ledger(portfolio) = <<>>
        /\ results.total_trades = 0
        /\ \A t \in 1..Len(portfolio.value) :
              portfolio.value[t] = MInt(initial_capital)
        /\ all_metrics.win_rate = Zero
        /\ all_metrics.profit_factor = "zero"
        /\ all_metrics.sharpe_ratio = "zero"
        /\ all_metrics.sortino_ratio = "zero"
        /\ all_metrics.calmar_ratio = "zero"
        /\ all_metrics.max_drawdown = One

\* One enter at bar i, one exit at a later bar j, the price constant.
OneRoundTripAtConstantPrice ==
    /\ \A k \in 1..Len(price_data) : price_data[k] = price_data[1]
    /\ \E i, j \in 1..Len(price_data) :
          /\ i < j
          /\ \A k \in 1..Len(price_data) : entries[k] <=> (k = i)
          /\ \A k \in 1..Len(price_data) : exits[k] <=> (k = j)

\* C10: over a constant price, one enter and one later exit give exactly
\* one trade whose net pnl is minus the two fees, that is whose
\* price difference (exit_price - entry_price) * size is zero; the pnl is
\* negative and the final equity is initial_capital plus the pnl
\* (the trade cost initial_capital and the final equity is its proceeds).
C10_RoundTripCostsOnlyFees ==
    (Reported /\ OneRoundTripAtConstantPrice) =>
        /\ Len(Ledger(portfolio)) = 1
        /\ results.total_trades = 1
        /\ LET t == Ledger(portfolio)[1]
           IN  /\ MMul(t.exit_price, t.size) = MMul(t.entry_price, t.size)
               /\ t.entry_fees = MMul(MMul(t.entry_price, t.size), FeesRate)
               /\ t.exit_fees = MMul(MMul(t.exit_price, t.size), FeesRate)
               /\ PnlNegative(t)
               /\ t.cost = MInt(initial_capital)
               /\ FinalValue = t.proceeds

\* The orders placed on bars 1..t: they fix the position after each of
\* those bars and the trades closed by then.
OrdersUpTo(pf, t) == SelectSeq(pf.order_records, LAMBDA o : o.idx <= t)

Min(a, b) == IF a <= b THEN a ELSE b

\* C5: two runs with the same initial capital whose price and signal
\* series agree on the first bars have, on those bars, the same orders
\* (hence position and trade ledger) and the same equity values, whatever
\* the series are afterwards.
C5_NoLookahead ==
    pc = "simulate" =>
        LET t == Min(alt.agree, BarsDone(portfolio))
        IN  /\ BarsDone(alt_portfolio) = BarsDone(portfolio)
            /\ SubSeq(portfolio.value, 1, t) = SubSeq(alt_portfolio.value, 1, t)
            /\ OrdersUpTo(portfolio, t) = OrdersUpTo(alt_portfolio, t)
            /\ Ledger(portfolio) # <<>> /\ Ledger(portfolio)[1].exit_idx <= t
                  => /\ Ledger(alt_portfolio) # <<>>
                     /\ Ledger(alt_portfolio)[1] = Ledger(portfolio)[1]
            /\ BarsDone(portfolio) <= alt.agree =>
                  /\ portfolio.position = alt_portfolio.position
                  /\ portfolio.cash = alt_portfolio.cash

\* Both runs are walked to the end; they traded on the bars they share and
\* end differently because of the bars they do not share.
C5_Witness ==
    /\ pc = "simulate"
    /\ BarsDone(portfolio) = Len(price_data)
    /\ alt.close # price_data
    /\ Len(OrdersUpTo(portfolio, alt.agree)) >= 1
    /\ portfolio.value # alt_portfolio.value
    /\ portfolio.order_records # alt_portfolio.order_records

(***************************************************************************)
(* The rates a caller may want applied: those of the source, none at all,  *)
(* twice the fee.  Each is the fee rate, 1 + slippage and 1 - slippage.    *)
(***************************************************************************)
CallerRates ==
    {[fee_rate |-> FeesRate,
      buy_factor |-> OnePlusSlippage, sell_factor |-> OneMinusSlippage],
     [fee_rate |-> Zero, buy_factor |-> One, sell_factor |-> One],
     [fee_rate |-> MRat(2 * FeesNum, FeesDen),
      buy_factor |-> One, sell_factor |-> One]}

\* The order was priced and charged at the rates r on the close of its bar.
OrderAtRates(o, close, r) ==
    /\ o.price = MMul(MInt(close[o.idx]),
                      IF o.side = "Buy" THEN r.buy_factor ELSE r.sell_factor)
    /\ o.fees = MMul(MMul(o.size, o.price), r.fee_rate)

\* C11: whichever fee_rate and slippage_rate the caller supplies, every
\* simulated entry and exit is priced with that slippage and charged that
\* fee, and the first entry spends the caller's initial_capital: no
\* built-in rate takes their place.
C11_CallerRatesApplied ==
    pc \in {"simulate", "done"} =>
        /\ \A r \in CallerRates :
              \A j \in 1..Len(portfolio.order_records) :
                  OrderAtRates(portfolio.order_records[j], price_data, r)
        /\ Len(portfolio.order_records) >= 1 =>
              portfolio.order_records[1].cash_flow = MInt(initial_capital)

\* What holds of the source: every order is priced and charged at the
\* built-in rates, from the caller's initial_capital.
BuiltInRatesApplied ==
    pc \in {"simulate", "done"} =>
        /\ \A j \in 1..Len(portfolio.order_records) :
              OrderAtRates(portfolio.order_records[j], price_data,
                           [fee_rate |-> FeesRate,
                            buy_factor |-> OnePlusSlippage,
                            sell_factor |-> OneMinusSlippage])
        /\ Len(portfolio.order_records) >= 1 =>
              portfolio.order_records[1].cash_flow = MInt(initial_capital)

MaxBarsAny == 3

AnyPrices == {0, 1}

AnyPriceSeries == UNION {[1..n -> AnyPrices] : n \in 1..MaxBarsAny}

AnySignalSeries == UNION {SignalSeries(n) : n \in 1..MaxBarsAny}

Max(a, b) == IF a >= b THEN a ELSE b

\* str(e) of the exceptions from_signals raises on such data
ShapeMismatchError == "shape mismatch: objects cannot be broadcast to a single shape"
IndexMismatchError == "Broadcasting index is not allowed when index_from=strict"
OrderPriceError == "order.price must be finite and greater than 0"

\* The number of bars the three series are broadcast to.
BroadcastLen(close, ent, ex) == Max(Len(close), Max(Len(ent), Len(ex)))

\* numpy broadcasting: every length is 1 or the longest.
CanBroadcast(close, ent, ex) ==
    \A n \in {Len(close), Len(ent), Len(ex)} :
        n = 1 \/ n = BroadcastLen(close, ent, ex)

\* The series s over n bars: a single value is repeated.
Broadcast(s, n) == [k \in 1..n |-> IF Len(s) = 1 THEN s[1] ELSE s[k]]

LengthMismatch(close, ent, ex) ==
    Len(close) # Len(ent) \/ Len(close) # Len(ex)

\* The side of the order bar k of the broadcast series would place.
SideAt(pf, ent, ex, n, k) ==
    LET sig == ResolveSignalConflict(Broadcast(ent, n)[k], Broadcast(ex, n)[k])
    IN  SignalToSide(pf.position, sig[1], sig[2])

FetchAnyData ==
    /\ pc = "fetch"
    /\ \E data \in AnyPriceSeries :
          /\ price_data' = data
          /\ pc' = "signals"
    /\ UNCHANGED <<initial_capital, entries, exits, portfolio, results,
                   all_metrics, altvars, auxvars>>

GenerateAnySignals ==
    /\ pc = "signals"
    /\ \E ent \in AnySignalSeries, ex \in AnySignalSeries :
          /\ entries' = ent
          /\ exits' = ex
    /\ portfolio' = NewPortfolio(initial_capital)
    /\ pc' = "simulate"
    /\ UNCHANGED <<initial_capital, price_data, results, all_metrics,
                   altvars, auxvars>>

\* from_signals raises while broadcasting, before any bar is simulated.
BroadcastRaises ==
    /\ pc = "simulate"
    /\ BarsDone(portfolio) = 0
    /\ LengthMismatch(price_data, entries, exits)
    /\ LET e == IF CanBroadcast(price_data, entries, exits)
                THEN IndexMismatchError ELSE ShapeMismatchError
       IN  /\ pc' = Except(e).pc
           /\ results' = Except(e).results
    /\ UNCHANGED <<initial_capital, price_data, entries, exits, portfolio,
                   all_metrics, altvars, auxvars>>

\* from_signals, the next bar of the broadcast series.
AnyBar ==
    /\ pc = "simulate"
    /\ CanBroadcast(price_data, entries, exits)
    /\ LET n == BroadcastLen(price_data, entries, exits)
           k == BarsDone(portfolio) + 1
       IN  /\ k <= n
           /\ ~(SideAt(portfolio, entries, exits, n, k) # "None"
                /\ Broadcast(price_data, n)[k] <= 0)
           /\ portfolio' = FromSignalsBar(portfolio, Broadcast(price_data, n),
                                          Broadcast(entries, n),
                                          Broadcast(exits, n), k)
    /\ UNCHANGED <<pc, initial_capital, price_data, entries, exits, results,
                   all_metrics, altvars, auxvars>>

\* from_signals raises on the order of the next bar: its price is not
\* positive.
OrderPriceRaises ==
    /\ pc = "simulate"
    /\ CanBroadcast(price_data, entries, exits)
    /\ LET n == BroadcastLen(price_data, entries, exits)
           k == BarsDone(portfolio) + 1
       IN  /\ k <= n
           /\ SideAt(portfolio, entries, exits, n, k) # "None"
           /\ Broadcast(price_data, n)[k] <= 0
    /\ pc' = Except(OrderPriceError).pc
    /\ results' = Except(OrderPriceError).results
    /\ UNCHANGED <<initial_capital, price_data, entries, exits, portfolio,
                   all_metrics, altvars, auxvars>>

\* results = self._calculate_metrics(portfolio, price_data, ticker)
AnyReport ==
    /\ pc = "simulate"
    /\ CanBroadcast(price_data, entries, exits)
    /\ LET n == BroadcastLen(price_data, entries, exits)
       IN  /\ BarsDone(portfolio) = n
           /\ results' = CalculateMetrics(portfolio, Broadcast(price_data, n),
                                          initial_capital)
    /\ pc' = "done"
    /\ UNCHANGED <<initial_capital, price_data, entries, exits, portfolio,
                   all_metrics, altvars, auxvars>>

NextInputs ==
    \/ FetchAnyData
    \/ GenerateAnySignals
    \/ BroadcastRaises
    \/ AnyBar
    \/ OrderPriceRaises
    \/ AnyReport

SpecInputs == Init /\ [][NextInputs]_vars

\* C12: a run whose signal series differ in length from the price series,
\* or in which an entry would execute at a price that is not positive,
\* ends in an error result that names the failure, and never in a report.
C12_BadInputIsError ==
    (pc = "done" /\ entries # <<>>) =>
        LET n == BroadcastLen(price_data, entries, exits)
            k == BarsDone(portfolio) + 1
        IN  /\ LengthMismatch(price_data, entries, exits) =>
                  results.error \in {ShapeMismatchError, IndexMismatchError,
                                     OrderPriceError}
            /\ (/\ ~LengthMismatch(price_data, entries, exits)
                /\ k <= n
                /\ SideAt(portfolio, entries, exits, n, k) = "Buy"
                /\ price_data[k] <= 0) =>
                  results.error = OrderPriceError
            /\ results.error = "none" =>
                  /\ ~LengthMismatch(price_data, entries, exits)
                  /\ \A j \in 1..Len(portfolio.order_records) :
                        price_data[portfolio.order_records[j].idx] > 0

\* What holds of the source: lengths that differ and are both above 1, and
\* an order at a price that is not positive, end in an error result.
UnbroadcastableIsError ==
    (pc = "done" /\ entries # <<>>) =>
        /\ ~CanBroadcast(price_data, entries, exits) =>
              results.error = ShapeMismatchError
        /\ results.error = "none" =>
              \A j \in 1..Len(portfolio.order_records) :
                  Broadcast(price_data, BarsDone(portfolio))[
                      portfolio.order_records[j].idx] > 0

(***************************************************************************)
(* run_backtest twice on the same strategy, ticker, window and price data. *)
(* Each run builds its own social_data in fetch_social_historical_data:    *)
(* 'mentions' is abs(np.random.normal(100, 50, n)), drawn afresh by every  *)
(* run ('sentiment' is nan on the first five bars, whatever is drawn).     *)
(* A bar's mentions are kept as above or below the mean of the draw.       *)
(***************************************************************************)
Mentions == {"low", "high"}

SocialSeries(n) == [1..n -> Mentions]

\* The strategy classes run: one reads the closes only, one the mentions.
Strategies == {"MomentumStrategy", "MentionsStrategy"}

\* strategy.generate_signals(price_data, social_data, news_data)
StrategySignals(strategy, close, social) ==
    IF strategy = "MomentumStrategy"
    THEN [entries |-> [k \in 1..Len(close) |-> k > 1 /\ close[k] > close[k - 1]],
          exits |-> [k \in 1..Len(close) |-> k > 1 /\ close[k] < close[k - 1]]]
    ELSE [entries |-> [k \in 1..Len(close) |-> social[k] = "high"],
          exits |-> [k \in 1..Len(close) |-> social[k] = "low"]]

\* Both runs up to from_signals: the same closes and strategy, a draw of
\* the social series for each.
TwiceInputs ==
    /\ pc = "fetch"
    /\ \E data \in PriceSeriesPair, strategy \in Strategies :
       \E social \in SocialSeries(Len(data)),
          alt_social \in SocialSeries(Len(data)) :
          LET sig == StrategySignals(strategy, data, social)
              alt_sig == StrategySignals(strategy, data, alt_social)
          IN  /\ price_data' = data
              /\ entries' = sig.entries
              /\ exits' = sig.exits
              /\ alt' = [close |-> data,
                         entries |-> alt_sig.entries,
                         exits |-> alt_sig.exits,
                         agree |-> 0,
                         strategy |-> strategy]
    /\ portfolio' = NewPortfolio(initial_capital)
    /\ alt_portfolio' = NewPortfolio(initial_capital)
    /\ pc' = "simulate"
    /\ UNCHANGED <<initial_capital, results, all_metrics, auxvars>>

\* Both runs return their report.
TwiceReport ==
    /\ pc = "simulate"
    /\ BarsDone(portfolio) = Len(price_data)
    /\ results' = CalculateMetrics(portfolio, price_data, initial_capital)
    /\ alt' = [close |-> alt.close, entries |-> alt.entries,
               exits |-> alt.exits, agree |-> alt.agree,
               strategy |-> alt.strategy,
               results |-> CalculateMetrics(alt_portfolio, alt.close,
                                            initial_capital)]
    /\ pc' = "done"
    /\ UNCHANGED <<initial_capital, price_data, entries, exits, portfolio,
                   all_metrics, alt_portfolio, auxvars>>

NextTwice ==
    \/ TwiceInputs
    \/ PairBar
    \/ TwiceReport

SpecTwice == Init /\ [][NextTwice]_vars

\* C14: two runs of the same strategy on the same price data with the same
\* configuration return the same value in every field of the report.
C14_SameInputsSameReport ==
    (pc = "done" /\ "results" \in DOMAIN alt) =>
        /\ alt.close = price_data
        /\ alt.results = results

\* What holds of the source: the reports are equal when the strategy does
\* not read social_data.
SameReportWithoutSocialData ==
    (pc = "done" /\ "results" \in DOMAIN alt
        /\ alt.strategy = "MomentumStrategy") => alt.results = results

(***************************************************************************)
(* The functions of PerformanceMetrics, each called on its own.  The       *)
(* arguments are drawn when the call is set up; an action applies one      *)
(* function to them.  Equity values, daily returns (in percent) and pnl    *)
(* values are small integers.                                              *)
(***************************************************************************)
\* longest equity curve, return series and pnl column of a call
MaxPoints == 3

EquityValues == {1, 2, 3}
ReturnPercents == {-1, 0, 1}
PnlValues == {-2, -1, 0, 1, 2}

EquityCurves == UNION {[1..n -> EquityValues] : n \in 1..MaxPoints}
ReturnSeries == UNION {[1..n -> ReturnPercents] : n \in 0..MaxPoints}
PnlColumns == UNION {[1..n -> PnlValues] : n \in 0..MaxPoints}

\* max_drawdown arguments of calculate_calmar_ratio, as the least
\* E / cummax: no drawdown, a drawdown of 50%.
DrawdownRatios == {One, MRat(1, 2)}

\* The series of amounts of a series of integers.
Amounts(xs) == [k \in 1..Len(xs) |-> MInt(xs[k])]

\* The growth factors 1 + p / 100 of a series of returns in percent.
Growth(ps) == [k \in 1..Len(ps) |-> MRat(100 + ps[k], 100)]

\* A row of the trades frame whose 'pnl' is p: proceeds - cost = p.
TradeOfPnl(p) ==
    IF p >= 0 THEN [cost |-> Zero, proceeds |-> MInt(p)]
    ELSE [cost |-> MInt(-p), proceeds |-> Zero]

TradesOfPnl(pnl) == [k \in 1..Len(pnl) |-> TradeOfPnl(pnl[k])]

\* a - b of amounts with the same cost factors
MSub(a, b) == MAdd(a, MMul(b, MInt(-1)))

RECURSIVE MSum(_)
MSum(xs) == IF xs = <<>> THEN Zero ELSE MAdd(xs[1], MSum(Tail(xs)))

\* trades[trades['pnl'] > 0]['pnl'].sum()
GrossProfit(trades) ==
    LET winning == SelectSeq(trades, PnlPositive)
    IN  MSum([k \in 1..Len(winning) |->
                 MSub(winning[k].proceeds, winning[k].cost)])

\* abs(trades[trades['pnl'] < 0]['pnl'].sum())
GrossLoss(trades) ==
    LET losing == SelectSeq(trades, PnlNegative)
    IN  MSum([k \in 1..Len(losing) |->
                 MSub(losing[k].cost, losing[k].proceeds)])

\* calculate_profit_factor with its value: gross_profit / gross_loss on the
\* last return, the constants 0.0 and inf on the others.
ProfitFactor(trades) ==
    LET kind == CalculateProfitFactor(trades)
    IN  [kind |-> kind,
         value |-> IF kind = "value"
                   THEN MDiv(GrossProfit(trades), GrossLoss(trades))
                   ELSE Zero]

MetricArgs ==
    {[equity_curve |-> e] : e \in EquityCurves}
    \cup {[returns |-> r] : r \in ReturnSeries}
    \cup {[returns |-> r, max_drawdown |-> d] :
              r \in ReturnSeries, d \in DrawdownRatios}
    \cup {[trades |-> p] : p \in PnlColumns}

Takes(fields) == call.fn = "none" /\ DOMAIN call.args = fields

Returned(fn, result) ==
    /\ call' = [fn |-> fn, args |-> call.args, result |-> result]
    /\ UNCHANGED <<pc, initial_capital, price_data, entries, exits, portfolio,
                   results, all_metrics, altvars, multi>>

CallMaxDrawdown ==
    /\ Takes({"equity_curve"})
    /\ Returned("calculate_max_drawdown",
                CalculateMaxDrawdown(Amounts(call.args.equity_curve)))

CallSharpeRatio ==
    /\ Takes({"returns"})
    /\ Returned("calculate_sharpe_ratio",
                CalculateSharpeRatio(Growth(call.args.returns)))

CallSortinoRatio ==
    /\ Takes({"returns"})
    /\ Returned("calculate_sortino_ratio",
                CalculateSortinoRatio(Growth(call.args.returns)))

CallCalmarRatio ==
    /\ Takes({"returns", "max_drawdown"})
    /\ Returned("calculate_calmar_ratio",
                CalculateCalmarRatio(Growth(call.args.returns),
                                     call.args.max_drawdown))

CallWinRate ==
    /\ Takes({"trades"})
    /\ Returned("calculate_win_rate",
                CalculateWinRate(TradesOfPnl(call.args.trades)))

CallProfitFactor ==
    /\ Takes({"trades"})
    /\ Returned("calculate_profit_factor",
                ProfitFactor(TradesOfPnl(call.args.trades)))

(***************************************************************************)
(* Alpha and beta against the benchmark: BenchmarkComparison               *)
(* .calculate_alpha_beta and BacktestEngine._compare_with_benchmark.  A    *)
(* return series is indexed by the timestamps 1..Len, so the timestamps    *)
(* two series share are 1..the shorter length.  Returns are integers, in   *)
(* percent: beta does not depend on the unit.                              *)
(***************************************************************************)
\* if len(common_idx) < 30
MinOverlap == 30
\* longest return series compared with the benchmark
MaxOverlap == 31

OverlapLengths == {0, 1, 2, MinOverlap - 1, MinOverlap, MaxOverlap}

ReturnPatterns == [1..2 -> ReturnPercents]

\* The returns p, then days of no return, n days in all.
Padded(p, n) == [k \in 1..n |-> IF k <= Len(p) THEN p[k] ELSE 0]

AlignedSeries == {Padded(p, n) : p \in ReturnPatterns, n \in OverlapLengths}

BenchmarkArgs ==
    {[strategy_returns |-> s, benchmark_returns |-> b] :
        s \in AlignedSeries, b \in AlignedSeries}

RECURSIVE Sum(_)
Sum(xs) == IF xs = <<>> THEN 0 ELSE xs[1] + Sum(Tail(xs))

Dot(xs, ys) == Sum([k \in 1..Len(xs) |-> xs[k] * ys[k]])

\* n^2 times the population covariance of two series of n points:
\* n * sum(x * y) - sum(x) * sum(y).
Co(xs, ys) == Len(xs) * Dot(xs, ys) - Sum(xs) * Sum(ys)

Number(m) == [kind |-> "number", value |-> m]
NaN == [kind |-> "nan"]

\* Variant: np.cov with ddof=0, sum((x - mx) * (y - my)) / n.
Covariance_Population(xs, ys) ==
    IF Len(xs) = 0 THEN NaN
    ELSE Number(MRat(Co(xs, ys), Len(xs) * Len(xs)))

\* np.cov(x, y)[0][1], ddof=1: sum((x - mx) * (y - my)) / (n - 1); nan
\* below two points.
Covariance(xs, ys) ==
    IF Len(xs) < 2 THEN NaN
    ELSE Number(MRat(Co(xs, ys), Len(xs) * (Len(xs) - 1)))

\* np.var(y), ddof=0: sum((y - my)^2) / n; nan of no point.
Variance(ys) ==
    IF Len(ys) = 0 THEN NaN
    ELSE Number(MRat(Co(ys, ys), Len(ys) * Len(ys)))

\* beta = covariance / variance if variance != 0 else 1.0
Beta(covariance, variance) ==
    IF variance.kind = "number" /\ variance.value = Zero THEN Number(One)
    ELSE IF variance.kind = "nan" \/ covariance.kind = "nan" THEN NaN
    ELSE Number(MDiv(covariance.value, variance.value))

\* np.corrcoef(x, y)[0][1]: nan when a series is constant.
Correlation(xs, ys) ==
    IF Co(xs, xs) = 0 \/ Co(ys, ys) = 0 THEN "nan" ELSE "value"

\* The product of the growth factors: 1 + the return over the whole series.
RECURSIVE TotalGrowth(_)
TotalGrowth(ps) ==
    IF ps = <<>> THEN One
    ELSE MMul(MRat(100 + ps[1], 100), TotalGrowth(Tail(ps)))

\* len(common_idx)
Overlap(s, b) == Min(Len(s), Len(b))

\* BenchmarkComparison.calculate_alpha_beta.  alpha is kept as what it is
\* computed from: annual(strategy mean) - beta * annual(benchmark mean),
\* annual(m) = (1 + m)^252 - 1.
CalculateAlphaBeta(strategy_returns, benchmark_returns) ==
    LET n == Overlap(strategy_returns, benchmark_returns)
        strategy_aligned == SubSeq(strategy_returns, 1, n)
        benchmark_aligned == SubSeq(benchmark_returns, 1, n)
        beta == Beta(Covariance(strategy_aligned, benchmark_aligned),
                     Variance(benchmark_aligned))
    IN  IF n < MinOverlap
        THEN [alpha |-> [kind |-> "zero"],
              beta |-> Number(One),
              correlation |-> "zero"]
        ELSE [alpha |-> [kind |-> "expression",
                         strategy_mean |-> MRat(Sum(strategy_aligned), n),
                         benchmark_mean |-> MRat(Sum(benchmark_aligned), n),
                         beta |-> beta],
              beta |-> beta,
              correlation |-> Correlation(strategy_aligned, benchmark_aligned)]

\* BacktestEngine._compare_with_benchmark with the benchmark data fetched:
\* alpha = strategy total return - benchmark total return, beta over the
\* timestamps the daily returns share.
CompareWithBenchmark(portfolio_returns, spy_daily_returns) ==
    LET n == Overlap(portfolio_returns, spy_daily_returns)
        portfolio_returns_aligned == SubSeq(portfolio_returns, 1, n)
        spy_returns_aligned == SubSeq(spy_daily_returns, 1, n)
        spy_returns == TotalGrowth(spy_daily_returns)
        strategy_returns == TotalGrowth(portfolio_returns)
    IN  [sp500_return |-> spy_returns,
         strategy_return |-> strategy_returns,
         alpha |-> [kind |-> IF strategy_returns = spy_returns
                             THEN "zero" ELSE "value"],
         beta |-> Beta(Covariance(portfolio_returns_aligned,
                                  spy_returns_aligned),
                       Variance(spy_returns_aligned)),
         outperformance |-> MLess(spy_returns, strategy_returns)]

CallAlphaBeta ==
    /\ Takes({"strategy_returns", "benchmark_returns"})
    /\ Returned("calculate_alpha_beta",
                CalculateAlphaBeta(call.args.strategy_returns,
                                   call.args.benchmark_returns))

CallCompareWithBenchmark ==
    /\ Takes({"strategy_returns", "benchmark_returns"})
    /\ Returned("_compare_with_benchmark",
                CompareWithBenchmark(call.args.strategy_returns,
                                     call.args.benchmark_returns))

InitMetrics ==
    /\ pc = "metrics"
    /\ initial_capital = DefaultInitialCapital
    /\ price_data = <<>>
    /\ entries = <<>>
    /\ exits = <<>>
    /\ portfolio = NewPortfolio(0)
    /\ results = NoResults
    /\ all_metrics = NoMetrics
    /\ alt = NoAlt
    /\ alt_portfolio = NewPortfolio(0)
    /\ call \in {[fn |-> "none", args |-> a] : a \in MetricArgs \cup BenchmarkArgs}
    /\ multi = NoMulti

NextMetrics ==
    \/ CallMaxDrawdown
    \/ CallSharpeRatio
    \/ CallSortinoRatio
    \/ CallCalmarRatio
    \/ CallWinRate
    \/ CallProfitFactor
    \/ CallAlphaBeta
    \/ CallCompareWithBenchmark

SpecMetrics == InitMetrics /\ [][NextMetrics]_vars

(***************************************************************************)
(* Claims on the metric functions.                                         *)
(***************************************************************************)
Called(fn) == call.fn = fn

\* The running maximum of the integers E[1..t].
PeakAt(E, t) == CHOOSE m \in {E[s] : s \in 1..t} : \A s \in 1..t : E[s] <= m

\* C15: for an equity curve of positive values max_drawdown is 0 when the
\* curve never decreases, above 0 when some value is below an earlier one,
\* and is the largest (M_t - E_t) / M_t, M_t the running maximum: the least
\* E_t / M_t is returned, and it is 1 exactly when nothing was lost.
C15_MaxDrawdownOfPeak ==
    Called("calculate_max_drawdown") =>
        LET E == call.args.equity_curve
            r == call.result
        IN  /\ (\A t \in 2..Len(E) : E[t - 1] <= E[t]) => r = One
            /\ (\E s, t \in 1..Len(E) : s < t /\ E[t] < E[s]) => MLess(r, One)
            /\ \E t \in 1..Len(E) : r = MRat(E[t], PeakAt(E, t))
            /\ \A t \in 1..Len(E) : r.n * PeakAt(E, t) <= E[t] * r.d

\* The drawdown of a curve that fell by half from its peak and then rose
\* above the peak.
C15_Witness ==
    /\ Called("calculate_max_drawdown")
    /\ call.args.equity_curve = <<2, 1, 3>>
    /\ call.result = MRat(1, 2)


\* C16: profit_factor is 0 for an empty ledger, +infinity when gross loss
\* is 0 and gross profit is above 0, 0 when both are 0, and gross_profit /
\* gross_loss otherwise, gross profit the sum of the positive pnl values
\* and gross loss the absolute sum of the negative ones.
C16_ProfitFactorCases ==
    Called("calculate_profit_factor") =>
        LET pnl == call.args.trades
            gross_profit == Sum(SelectSeq(pnl, LAMBDA p : p > 0))
            gross_loss == -Sum(SelectSeq(pnl, LAMBDA p : p < 0))
            r == call.result
        IN  /\ pnl = <<>> => r.kind = "zero"
            /\ (pnl # <<>> /\ gross_loss = 0 /\ gross_profit > 0) => r.kind = "inf"
            /\ (gross_loss = 0 /\ gross_profit = 0) => r.kind = "zero"
            /\ gross_loss > 0 =>
                  /\ r.kind = IF gross_profit > 0 THEN "value" ELSE "zero"
                  /\ r.value = MRat(gross_profit, gross_loss)

\* The profit factor of a ledger with winning, losing and break-even
\* trades.
C16_Witness ==
    /\ Called("calculate_profit_factor")
    /\ call.args.trades = <<2, -1, 0>>
    /\ call.result = [kind |-> "value", value |-> MInt(2)]

\* The daily return p percent is below the daily risk-free rate.
BelowRiskFree(p) == p * RiskFreeDen * TradingDays < 100 * RiskFreeNum

\* C17: every metric function returns a defined number: sharpe 0 when the
\* excess returns have zero standard deviation; sortino 0 when no excess
\* return is negative or the negative ones have zero or undefined standard
\* deviation, one negative excess return included; calmar 0 when the
\* maximum drawdown is 0; win_rate 0 for an empty ledger; none of them an
\* undefined value.
C17_MetricsDefined ==
    /\ Called("calculate_sharpe_ratio") =>
          LET r == call.args.returns
          IN  /\ call.result # "nan"
              /\ (r # <<>> /\ \A t \in 1..Len(r) : r[t] = r[1]) =>
                    call.result = "zero"
    /\ Called("calculate_sortino_ratio") =>
          LET downside == SelectSeq(call.args.returns, BelowRiskFree)
          IN  /\ call.result # "nan"
              /\ (Len(downside) <= 1
                  \/ \A t \in 1..Len(downside) : downside[t] = downside[1]) =>
                    call.result = "zero"
    /\ Called("calculate_calmar_ratio") =>
          /\ call.result # "nan"
          /\ call.args.max_drawdown = One => call.result = "zero"
    /\ (Called("calculate_win_rate") /\ call.args.trades = <<>>) =>
          call.result = Zero

\* What holds of the source: the zero cases of the claim, but for a
\* standard deviation of fewer than two points, which is nan and makes
\* sharpe and sortino nan.
MetricsDefinedFromTwoPoints ==
    /\ Called("calculate_sharpe_ratio") =>
          LET r == call.args.returns
          IN  /\ call.result = "nan" <=> Len(r) < 2
              /\ (Len(r) >= 2 /\ \A t \in 1..Len(r) : r[t] = r[1]) =>
                    call.result = "zero"
    /\ Called("calculate_sortino_ratio") =>
          LET downside == SelectSeq(call.args.returns, BelowRiskFree)
          IN  /\ call.result = "nan" <=> Len(downside) = 1
              /\ (Len(downside) = 0
                  \/ (Len(downside) >= 2
                      /\ \A t \in 1..Len(downside) : downside[t] = downside[1])) =>
                    call.result = "zero"
    /\ Called("calculate_calmar_ratio") =>
          call.result = IF call.args.max_drawdown = One THEN "zero" ELSE "value"
    /\ (Called("calculate_win_rate") /\ call.args.trades = <<>>) =>
          call.result = Zero

ComparedWithItself ==
    /\ call.fn \in {"calculate_alpha_beta", "_compare_with_benchmark"}
    /\ call.args.strategy_returns = call.args.benchmark_returns
    /\ Len(call.args.benchmark_returns) >= MinOverlap
    /\ \E t \in 1..Len(call.args.benchmark_returns) :
          call.args.benchmark_returns[t] # call.args.benchmark_returns[1]

\* alpha is 0: the constant, or an expression of equal means that vanishes.
AlphaIsZero(alpha) ==
    \/ alpha.kind = "zero"
    \/ /\ alpha.kind = "expression"
       /\ alpha.strategy_mean = alpha.benchmark_mean
       /\ (alpha.beta = Number(One) \/ alpha.strategy_mean = Zero)

\* C18: a return series of at least 30 points that is not constant,
\* compared against itself, has beta 1.0 and alpha 0.
C18_BetaOfItselfIsOne ==
    ComparedWithItself =>
        /\ call.result.beta = Number(One)
        /\ AlphaIsZero(call.result.alpha)

\* What holds of the source: beta of a series against itself is
\* n / (n - 1), from np.cov's ddof=1 over np.var's ddof=0.
BetaOfItselfIsNOverNMinusOne ==
    ComparedWithItself =>
        LET n == Len(call.args.benchmark_returns)
        IN  call.result.beta = Number(MRat(n, n - 1))

\* C19: when the two return series share fewer than 30 timestamps the
\* comparison returns alpha 0, beta 1, correlation 0 and a flag saying the
\* data was insufficient, from calculate_alpha_beta and from the comparison
\* run inside a backtest alike.
C19_InsufficientOverlapFlagged ==
    (/\ call.fn \in {"calculate_alpha_beta", "_compare_with_benchmark"}
     /\ Overlap(call.args.strategy_returns, call.args.benchmark_returns)
            < MinOverlap) =>
        /\ call.result.alpha.kind = "zero"
        /\ call.result.beta = Number(One)
        /\ "correlation" \in DOMAIN call.result
        /\ call.result.correlation = "zero"
        /\ "insufficient_data" \in DOMAIN call.result

\* What holds of the source: calculate_alpha_beta returns the three neutral
\* values below 30 shared timestamps, and nothing else.
NeutralBelowMinOverlap ==
    (/\ Called("calculate_alpha_beta")
     /\ Overlap(call.args.strategy_returns, call.args.benchmark_returns)
            < MinOverlap) =>
        call.result = [alpha |-> [kind |-> "zero"], beta |-> Number(One),
                       correlation |-> "zero"]

(***************************************************************************)
(* BacktestEngine.run_multiple_backtests and _analyze_consistency.  Each   *)
(* window is one call of run_backtest, which returns a report or an error  *)
(* result; of a report only sharpe_ratio (in tenths), total_return (in     *)
(* percent) and benchmark_comparison are read.                             *)
(***************************************************************************)
\* most windows of a call
MaxWindows == 2

\* np.std(sharpe_ratios) < 0.5 = ConsistencyNum / ConsistencyDen
ConsistencyNum == 1
ConsistencyDen == 2

Years == {1, 5}

PeriodLists == UNION {[1..n -> Years] : n \in 0..MaxWindows}

SharpeTenths == {0, 4, 10}

\* portfolio.sharpe_ratio(): a number, or NaN when the standard deviation
\* of the daily returns is undefined (a window of one bar).
SharpeValues == {Number(s) : s \in SharpeTenths} \cup {NaN}

ReturnValues == {0, 20}

\* What _calculate_metrics returns for a window that was simulated.
WindowMetrics ==
    {[sharpe_ratio |-> s, total_return |-> r] :
         s \in SharpeValues, r \in ReturnValues}

BenchmarkUnavailable == "Benchmark data unavailable"
BenchmarkError == "benchmark raised"

\* How _compare_with_benchmark goes: the benchmark data is not fetched, an
\* exception is raised after the fetch, or the comparison is computed.
BenchmarkSteps == {"unavailable", "raises", "compared"}

\* _compare_with_benchmark, as seen by its caller: the comparison, or an
\* error record; the exception is caught inside.
CompareStep(step) ==
    IF step = "unavailable" THEN [error |-> BenchmarkUnavailable]
    ELSE IF step = "raises" THEN [error |-> BenchmarkError]
    ELSE [error |-> "none"]

\* Variant: an exception of the benchmark step reaches the handler of
\* run_backtest, and missing benchmark data fails the window.
WindowReport_BenchmarkFails(metrics, step) ==
    IF step = "compared"
    THEN [error |-> "none", sharpe_ratio |-> metrics.sharpe_ratio,
          total_return |-> metrics.total_return,
          benchmark_comparison |-> CompareStep(step)]
    ELSE Except(CompareStep(step).error).results

\* The tail of run_backtest: results = self._calculate_metrics(...);
\* results['benchmark_comparison'] = self._compare_with_benchmark(...);
\* return results
WindowReport(metrics, step) ==
    [error |-> "none", sharpe_ratio |-> metrics.sharpe_ratio,
     total_return |-> metrics.total_return,
     benchmark_comparison |-> CompareStep(step)]

\* What a call of run_backtest for a window comes to: an error result
\* before the benchmark step, or a report.
WindowOutcomes ==
    {[result |-> e, benchmark |-> "not reached"] :
         e \in {[error |-> "Data fetch failed"], Except(StrategyError).results}}
    \cup {[result |-> WindowReport(m, step), benchmark |-> step] :
              m \in WindowMetrics, step \in BenchmarkSteps}

\* f'{years}Y'
PeriodKey(years) == IF years = 1 THEN "1Y" ELSE "5Y"

\* results[key] = result
Store(dict, key, result) ==
    [k \in DOMAIN dict \cup {key} |-> IF k = key THEN result ELSE dict[k]]

\* Variant: the loop ends at the first window that fails.
LoopDone_StopOnError(m) ==
    \/ Len(m.log) = Len(m.periods)
    \/ m.log # <<>> /\ m.log[Len(m.log)].result.error # "none"

\* for years in periods: the loop is over when every period was taken.
LoopDone(m) == Len(m.log) = Len(m.periods)

\* 'error' not in data: the keys of the result itself.
IsReport(data) == data.error = "none"

\* The entries of the dict that hold a report, in some order.
Reports(dict) ==
    LET keys == {k \in DOMAIN dict : IsReport(dict[k])}
        order == CHOOSE s \in [1..Cardinality(keys) -> keys] :
                     \A i, j \in 1..Cardinality(keys) : s[i] = s[j] => i = j
    IN  [i \in 1..Cardinality(keys) |-> dict[order[i]]]

\* The dict returned by _analyze_consistency for the given reports.
\* np.std is the population standard deviation; it is kept as its square,
\* Co / n^2, in the unit of the values.  np.std and np.mean are NaN when a
\* value is NaN or when there is no value, and NaN < 0.5 is False.
ConsistencyRecord(reports) ==
    LET n == Len(reports)
        finite == n > 0 /\ \A i \in 1..n : reports[i].sharpe_ratio.kind = "number"
        sharpe_ratios == [i \in 1..n |-> reports[i].sharpe_ratio.value]
        returns == [i \in 1..n |-> reports[i].total_return]
    IN  [sharpe_consistency |->
             IF finite
             THEN Number(MRat(Co(sharpe_ratios, sharpe_ratios), 100 * n * n))
             ELSE NaN,
         return_consistency |->
             IF n > 0 THEN Number(MRat(Co(returns, returns), n * n)) ELSE NaN,
         avg_sharpe |->
             IF finite THEN Number(MRat(Sum(sharpe_ratios), 10 * n)) ELSE NaN,
         avg_return |->
             IF n > 0 THEN Number(MRat(Sum(returns), n)) ELSE NaN,
         is_consistent |->
             /\ finite
             /\ Co(sharpe_ratios, sharpe_ratios) * ConsistencyDen * ConsistencyDen
                    < 100 * n * n * ConsistencyNum * ConsistencyNum]

\* Variant: no test for an empty list of Sharpe ratios.
AnalyzeConsistency_NoGuard(dict) == ConsistencyRecord(Reports(dict))

\* _analyze_consistency: if not sharpe_ratios: return {}
AnalyzeConsistency(dict) ==
    IF Len(Reports(dict)) = 0 THEN <<>> ELSE ConsistencyRecord(Reports(dict))

\* results = {}
RunMultipleBacktests ==
    /\ pc = "fetch"
    /\ multi = NoMulti
    /\ \E periods \in PeriodLists :
          multi' = [periods |-> periods, log |-> <<>>, results |-> <<>>,
                    returned |-> FALSE]
    /\ pc' = "multi"
    /\ UNCHANGED <<initial_capital, price_data, entries, exits, portfolio,
                   results, all_metrics, altvars, call>>

\* One turn of the loop: result = self.run_backtest(..., years=years);
\* results[f'{years}Y'] = result.  The call is synchronous: the turn
\* starts the window and ends when the window has returned.  log is the
\* sequence of the runs made.
RunWindow ==
    /\ pc = "multi"
    /\ ~multi.returned
    /\ ~LoopDone(multi)
    /\ LET years == multi.periods[Len(multi.log) + 1]
       IN  \E o \in WindowOutcomes :
              multi' = [multi EXCEPT
                           !.log = Append(@, [years |-> years,
                                              result |-> o.result,
                                              benchmark |-> o.benchmark]),
                           !.results = Store(@, PeriodKey(years), o.result)]
    /\ UNCHANGED <<pc, initial_capital, price_data, entries, exits, portfolio,
                   results, all_metrics, altvars, call>>

\* results['consistency_analysis'] = self._analyze_consistency(results);
\* return results
ReturnConsistency ==
    /\ pc = "multi"
    /\ ~multi.returned
    /\ LoopDone(multi)
    /\ multi' = [periods |-> multi.periods, log |-> multi.log,
                 results |-> multi.results, returned |-> TRUE,
                 consistency_analysis |-> AnalyzeConsistency(multi.results)]
    /\ UNCHANGED <<pc, initial_capital, price_data, entries, exits, portfolio,
                   results, all_metrics, altvars, call>>

NextMulti ==
    \/ RunMultipleBacktests
    \/ RunWindow
    \/ ReturnConsistency

SpecMulti == Init /\ [][NextMulti]_vars

\* The last run made of the window of the given years.
LastRunOf(years) ==
    LET runs == SelectSeq(multi.log, LAMBDA r : r.years = years)
    IN  runs[Len(runs)].result

\* The windows of the result that hold a report.
SuccessfulKeys == {k \in DOMAIN multi.results : multi.results[k].error = "none"}

\* The windows of the result whose Sharpe ratio is a number.
FiniteKeys ==
    {k \in SuccessfulKeys : multi.results[k].sharpe_ratio.kind = "number"}

RECURSIVE SumOver(_, _)
SumOver(S, f) ==
    IF S = {} THEN 0
    ELSE LET x == CHOOSE y \in S : TRUE
         IN  f[x] + SumOver(S \ {x}, f)

\* n^3 times the population variance of the values f[k], k in S:
\* the sum of (n * f[k] - sum)^2.
Spread(S, f) ==
    LET n == Cardinality(S)
        total == SumOver(S, f)
    IN  SumOver(S, [k \in S |-> (n * f[k] - total) * (n * f[k] - total)])

\* The Sharpe ratios, in tenths, and the returns of the windows.
SharpeOf == [k \in FiniteKeys |-> multi.results[k].sharpe_ratio.value]
ReturnOf == [k \in SuccessfulKeys |-> multi.results[k].total_return]

\* C20: every requested window is run, in order and whatever the windows
\* before it returned, and is in the result with the report or the error
\* of its run; sharpe_std, return_std, avg_sharpe, avg_return and
\* is_consistent are taken over exactly the windows that hold a report.
C20_FailedWindowsExcluded ==
    (pc = "multi" /\ multi.returned) =>
        /\ Len(multi.log) = Len(multi.periods)
        /\ \A i \in 1..Len(multi.periods) :
              /\ multi.log[i].years = multi.periods[i]
              /\ PeriodKey(multi.periods[i]) \in DOMAIN multi.results
              /\ multi.results[PeriodKey(multi.periods[i])]
                    = LastRunOf(multi.periods[i])
        /\ DOMAIN multi.results =
              {PeriodKey(multi.periods[i]) : i \in 1..Len(multi.periods)}
        /\ LET S == SuccessfulKeys
               n == Cardinality(S)
               c == multi.consistency_analysis
           IN  IF S = {} THEN c = <<>>
               ELSE /\ c.avg_return = Number(MRat(SumOver(S, ReturnOf), n))
                    /\ c.return_consistency
                          = Number(MRat(Spread(S, ReturnOf), n * n * n))
                    /\ IF FiniteKeys = S
                       THEN /\ c.avg_sharpe
                                 = Number(MRat(SumOver(S, SharpeOf), 10 * n))
                            /\ c.sharpe_consistency
                                 = Number(MRat(Spread(S, SharpeOf),
                                               100 * n * n * n))
                            /\ c.is_consistent <=>
                                  (4 * Spread(S, SharpeOf) < 100 * n * n * n)
                       ELSE /\ c.avg_sharpe = NaN
                            /\ c.sharpe_consistency = NaN
                            /\ ~c.is_consistent

\* A window failed, the windows after it were run, and the aggregates were
\* taken over the reports of the others.
C20_Witness ==
    /\ pc = "multi"
    /\ multi.returned
    /\ Len(multi.periods) >= 2
    /\ multi.log[1].result.error # "none"
    /\ multi.log[2].result.error = "none"
    /\ multi.periods[1] # multi.periods[2]
    /\ multi.consistency_analysis # <<>>
    /\ multi.consistency_analysis.avg_sharpe = Number(MRat(4, 10))

\* C21: when no window of a multi-window run holds a report, because every
\* window failed or because no window was requested, the run returns: the
\* result has an empty consistency_analysis and, for every requested
\* window, the error result of its run.
C21_NoReportStillReturns ==
    (pc = "multi" /\ multi.returned /\ SuccessfulKeys = {}) =>
        /\ multi.consistency_analysis = <<>>
        /\ \A i \in 1..Len(multi.periods) :
              /\ PeriodKey(multi.periods[i]) \in DOMAIN multi.results
              /\ multi.results[PeriodKey(multi.periods[i])].error
                    = LastRunOf(multi.periods[i]).error
              /\ LastRunOf(multi.periods[i]).error
                    \in {"Data fetch failed", StrategyError}

\* Two windows were requested, both failed, and the run returned.
C21_Witness ==
    /\ pc = "multi"
    /\ multi.returned
    /\ Len(multi.periods) = 2
    /\ multi.periods[1] # multi.periods[2]
    /\ SuccessfulKeys = {}
    /\ multi.log[1].result.error = "Data fetch failed"
    /\ multi.log[2].result.error = StrategyError
    /\ multi.consistency_analysis = <<>>

\* C22: is_consistent is true exactly when the population standard
\* deviation of the Sharpe ratios of the windows that hold a report is
\* below 0.5; when these Sharpe ratios are all the same, or there is one
\* such window, sharpe_consistency is 0 and is_consistent is true.
C22_ConsistentBelowHalf ==
    (pc = "multi" /\ multi.returned /\ SuccessfulKeys # {}) =>
        LET S == SuccessfulKeys
            n == Cardinality(S)
            c == multi.consistency_analysis
        IN  /\ c.is_consistent <=>
                  /\ FiniteKeys = S
                  /\ 4 * Spread(S, SharpeOf) < 100 * n * n * n
            /\ (\A j, k \in S : multi.results[j].sharpe_ratio
                                   = multi.results[k].sharpe_ratio) =>
                  /\ c.sharpe_consistency = Number(Zero)
                  /\ c.is_consistent

\* What holds of the source: the second part of C22 for Sharpe ratios
\* that are numbers.
ConsistentWhenSameNumber ==
    (pc = "multi" /\ multi.returned /\ SuccessfulKeys # {}
        /\ FiniteKeys = SuccessfulKeys) =>
        LET S == SuccessfulKeys
            c == multi.consistency_analysis
        IN  (\A j, k \in S : SharpeOf[j] = SharpeOf[k]) =>
                /\ c.sharpe_consistency = Number(Zero)
                /\ c.is_consistent

\* C28: a window whose benchmark step fails, because the benchmark data is
\* unavailable or because the step raises, returns its report with the
\* benchmark comparison replaced by an error record, and the window is
\* among those the consistency analysis is taken over.
C28_BenchmarkFailureKeepsWindow ==
    pc = "multi" =>
        \A i \in 1..Len(multi.log) :
            LET run == multi.log[i]
                key == PeriodKey(run.years)
            IN  run.benchmark \in {"unavailable", "raises"} =>
                    /\ run.result.error = "none"
                    /\ {"sharpe_ratio", "total_return"} \subseteq DOMAIN run.result
                    /\ run.result.benchmark_comparison.error
                          = IF run.benchmark = "unavailable"
                            THEN BenchmarkUnavailable ELSE BenchmarkError
                    /\ (multi.returned /\ multi.results[key] = run.result) =>
                          /\ key \in SuccessfulKeys
                          /\ multi.consistency_analysis # <<>>
                          /\ multi.consistency_analysis.avg_return
                                = Number(MRat(SumOver(SuccessfulKeys, ReturnOf),
                                              Cardinality(SuccessfulKeys)))

\* The benchmark step raised in the only window that holds a report, and
\* the averages are the values of that window.
C28_Witness ==
    /\ pc = "multi"
    /\ multi.returned
    /\ Len(multi.periods) = 2
    /\ multi.log[1].benchmark = "raises"
    /\ multi.log[2].result.error = "Data fetch failed"
    /\ multi.periods[1] # multi.periods[2]
    /\ multi.log[1].result.total_return = 20
    /\ multi.log[1].result.sharpe_ratio = Number(10)
    /\ multi.consistency_analysis.avg_return = Number(MInt(20))
    /\ multi.consistency_analysis.avg_sharpe = Number(MInt(1))

\* The windows that have been started and those that have returned: a
\* turn of the loop does both.
Started(i) == i <= Len(multi.log)
Completed(i) == i <= Len(multi.log)

\* C23: with a parallelism limit of two or more the windows of a run are
\* under way together, so a window does not wait for the window before it
\* to return; each window writes its own entry of the result; and the
\* consistency analysis is made when every window has returned.
C23_WindowsRunConcurrently ==
    pc = "multi" =>
        /\ \A i \in 1..Len(multi.periods) :
              (Completed(i) /\ i < Len(multi.periods)) => Started(i + 1)
        /\ multi.returned => \A i \in 1..Len(multi.periods) : Completed(i)

\* What holds of the source: the windows run one after the other, and the
\* consistency analysis is made when every window has returned.
WindowsRunInTurn ==
    pc = "multi" =>
        /\ \A i \in 1..Len(multi.periods) :
              Started(i) => \A j \in 1..(i - 1) : Completed(j)
        /\ multi.returned => \A i \in 1..Len(multi.periods) : Completed(i)

(***************************************************************************)
(* A window that never returns.  run_backtest executes the code it is      *)
(* given (exec and generate_signals) and downloads data inside the turn of *)
(* the loop; nothing in run_multiple_backtests or run_backtest bounds the  *)
(* time of the call.  The program is one thread and takes its next step    *)
(* whenever it has one.                                                    *)
(***************************************************************************)
\* The call of run_backtest for the next window does not come back.
WindowStalls ==
    /\ pc = "multi"
    /\ ~multi.returned
    /\ ~LoopDone(multi)
    /\ pc' = "stalled"
    /\ UNCHANGED <<initial_capital, price_data, entries, exits, portfolio,
                   results, all_metrics, altvars, auxvars>>

NextStall ==
    \/ RunMultipleBacktests
    \/ RunWindow
    \/ ReturnConsistency
    \/ WindowStalls

SpecStall == Init /\ [][NextStall]_vars /\ WF_vars(NextStall)

\* C24: when the call of a window stalls, the window comes to an error
\* result after a timeout and the run returns, with the results of the
\* other windows.
C24_StalledWindowTimesOut ==
    (pc = "stalled") ~>
        (multi.returned /\ Len(multi.log) = Len(multi.periods))

\* What holds of the source: the run returns unless a window stalls.
ReturnsUnlessStalled ==
    (pc = "multi") ~> (multi.returned \/ pc = "stalled")

(***************************************************************************)
(* The equity curve and the trade records of a run.                        *)
(***************************************************************************)
\* Whether the position is open after bar k.
LongAfter(pf, k) == LongBefore(pf, k + 1)

\* C26: while the position is FLAT the equity is the cash balance: for two
\* consecutive bars after both of which the position is FLAT the equity is
\* the same, whatever the two closes; the equity changes only on a bar
\* where a position is open, opened or closed.
C26_FlatEquityConstant ==
    \A t \in 2..BarsDone(portfolio) :
        /\ (~LongAfter(portfolio, t - 1) /\ ~LongAfter(portfolio, t)) =>
              portfolio.value[t] = portfolio.value[t - 1]
        /\ portfolio.value[t] # portfolio.value[t - 1] =>
              \/ LongAfter(portfolio, t - 1)
              \/ LongAfter(portfolio, t)
              \/ OrdersOn(portfolio, t) # <<>>

\* A round trip was made on bars 1 and 2, the position stayed FLAT over
\* bars 3 and 4 while the close changed, and the equity did not move.
C26_Witness ==
    /\ BarsDone(portfolio) = 4
    /\ Len(portfolio.order_records) = 2
    /\ portfolio.order_records[2].idx = 2
    /\ price_data[3] # price_data[4]
    /\ portfolio.value[3] = portfolio.value[4]
    /\ portfolio.value[4] # MInt(initial_capital)

\* The bars with a true enter signal.
EnterBars == {k \in 1..Len(entries) : entries[k]}

\* Each trade exits after it enters, and enters after the trade before it
\* has exited.
Ordered(trades) ==
    /\ \A j \in 1..Len(trades) : trades[j].entry_idx < trades[j].exit_idx
    /\ \A j \in 2..Len(trades) : trades[j - 1].exit_idx < trades[j].entry_idx

\* C27: in the trade records of a simulation each trade's exit bar is
\* later than its entry bar, the trades are in order of time and do not
\* overlap, and there are at most as many trades as bars with a true
\* enter signal.
C27_TradesOrdered ==
    Reported =>
        LET trades == Trades(portfolio.order_records, price_data)
        IN  /\ Ordered(trades)
            /\ Len(trades) <= Cardinality(EnterBars)

\* What holds of the source: C27 for the closed trades, and the count for
\* all the trade records.
ClosedTradesOrdered ==
    pc \in {"simulate", "done"} =>
        /\ Ordered(Ledger(portfolio))
        /\ Len(Ledger(portfolio)) <= Cardinality(EnterBars)
        /\ Reported => results.total_trades <= Cardinality(EnterBars)

(***************************************************************************)
(* src/infinity_portal/divergence_detector.py,                             *)
(* SentimentPriceDivergenceDetector, and                                   *)
(* src/infinity_portal/trader_interface.py, TraderQuestionnaire, called on *)
(* their own.  The two HTTP fetches of the detector are inputs: each       *)
(* either fails or delivers its JSON.  Sentiments and thresholds are in    *)
(* tenths, price changes in percent, confidences in hundredths.  The       *)
(* texts of the explanations and questions, the current price and the      *)
(* timestamp are left out.                                                 *)
(***************************************************************************)
\* most articles of a news fetch
MaxArticles == 5
\* most risk factors and most exchanges of a question context
MaxRiskFactors == 2
MaxExchanges == 3

\* threshold: float = 0.3
DefaultThreshold == 3
\* if sentiment['articles_count'] < 5
MinArticles == 5
\* confidence *= 0.7; confidence *= 0.5
FewArticlesFactor == 7
ErrorFactor == 5
\* combined_magnitude > 5.0; combined_magnitude > 2.0
HighMagnitude == 5
MediumMagnitude == 2
\* if score < 0.5
LowTrust == 5
\* questions[:3]
TopQuestions == 3

ArticleSentiments == {-6, 0, 6}
NewsFetches ==
    {[status |-> "error"]}
    \cup {[status |-> "ok", items |-> a] :
              a \in UNION {[1..n -> ArticleSentiments] : n \in 0..MaxArticles}}

ChangePercents == {-10, 0, 5}
QuoteFetches ==
    {[status |-> "error"]} \cup {[status |-> "ok", dp |-> d] : d \in ChangePercents}

Thresholds == {DefaultThreshold, 6}

FetchError == "fetch failed"

\* get_news_sentiment.  sentiment_score is total / count, kept as the pair;
\* 0 when there is no article.
GetNewsSentiment(news) ==
    IF news.status = "error"
    THEN [sentiment_score |-> [num |-> 0, den |-> 1], articles_count |-> 0,
          error |-> FetchError]
    ELSE [sentiment_score |->
              IF news.items = <<>> THEN [num |-> 0, den |-> 1]
              ELSE [num |-> Sum(news.items), den |-> Len(news.items)],
          articles_count |-> Len(news.items)]

\* get_price_movement.  The record of a failed fetch has no direction and
\* no magnitude.
GetPriceMovement(quote) ==
    IF quote.status = "error"
    THEN [change_percent |-> 0, error |-> FetchError]
    ELSE [change_percent |-> quote.dp,
          direction |-> IF quote.dp > 0 THEN "up" ELSE "down",
          magnitude |-> Abs(quote.dp)]

\* _calculate_severity: sentiment_magnitude * price_magnitude against 5.0
\* and 2.0.
CalculateSeverity(score, price_magnitude) ==
    LET combined == Abs(score.num) * price_magnitude
    IN  IF combined > 10 * HighMagnitude * score.den THEN "HIGH"
        ELSE IF combined > 10 * MediumMagnitude * score.den THEN "MEDIUM"
        ELSE "LOW"

\* round(confidence, 2) of a confidence in thousandths.  The one product
\* with a third digit, 0.7 * 0.5 * 0.5, is just below 0.175 in binary
\* floating point and rounds down.
Round2(thousandths) == (thousandths + 4) \div 10

\* _calculate_confidence
CalculateConfidence(sentiment, price) ==
    LET few == IF sentiment.articles_count < MinArticles
               THEN FewArticlesFactor ELSE 10
        price_error == IF "error" \in DOMAIN price THEN ErrorFactor ELSE 10
        sentiment_error == IF "error" \in DOMAIN sentiment THEN ErrorFactor ELSE 10
    IN  Round2(few * price_error * sentiment_error)

\* Whether detect_divergence can read price['direction'] and
\* price['magnitude'].
HasDirection(price) == {"direction", "magnitude"} \subseteq DOMAIN price

\* detect_divergence, when it returns.
DetectDivergence(news, quote, threshold) ==
    LET sentiment == GetNewsSentiment(news)
        price == GetPriceMovement(quote)
        score == sentiment.sentiment_score
        price_direction == IF price.direction = "up" THEN 1 ELSE -1
        bearish == score.num > threshold * score.den /\ price_direction < 0
        bullish == score.num < (-threshold) * score.den /\ price_direction > 0
    IN  [has_divergence |-> bearish \/ bullish,
         divergence_type |-> IF bearish THEN "BEARISH"
                             ELSE IF bullish THEN "BULLISH" ELSE "None",
         severity |-> IF bearish \/ bullish
                      THEN CalculateSeverity(score, price.magnitude)
                      ELSE "NONE",
         confidence |-> CalculateConfidence(sentiment, price),
         risk_code |-> IF bearish \/ bullish THEN "FD02" ELSE "None",
         sentiment_data |-> sentiment,
         price_data |-> price]

DetectorArgs ==
    {[news |-> n, quote |-> q, threshold |-> t] :
         n \in NewsFetches, q \in QuoteFetches, t \in Thresholds}

\* result = detector.detect_divergence(ticker, threshold)
DetectDivergenceReturns ==
    /\ Takes({"news", "quote", "threshold"})
    /\ HasDirection(GetPriceMovement(call.args.quote))
    /\ Returned("detect_divergence",
                DetectDivergence(call.args.news, call.args.quote,
                                 call.args.threshold))

\* price['direction'] of a record without that key: KeyError, which
\* detect_divergence does not catch.
DetectDivergenceRaises ==
    /\ Takes({"news", "quote", "threshold"})
    /\ ~HasDirection(GetPriceMovement(call.args.quote))
    /\ Returned("detect_divergence", [raised |-> "KeyError"])

(***************************************************************************)
(* TraderQuestionnaire.generate_questions_from_context and its caller      *)
(* AutoHedge._run_interactive_session in src/infinity_portal/main.py.      *)
(***************************************************************************)
RiskCodes == {"FD01", "FD02"}
RiskFactorLists == UNION {[1..n -> RiskCodes] : n \in 0..MaxRiskFactors}

Divergences ==
    {[has_divergence |-> FALSE, divergence_type |-> "None"],
     [has_divergence |-> TRUE, divergence_type |-> "BULLISH"],
     [has_divergence |-> TRUE, divergence_type |-> "BEARISH"]}

\* trust_scores, in the order of the dict: exchange k has score[k].
TrustTenths == {3, 9}
TrustScores == UNION {[1..n -> TrustTenths] : n \in 0..MaxExchanges}

QuestionArgs ==
    {[risk_factors |-> r, divergence |-> d, trust_scores |-> t] :
         r \in RiskFactorLists, d \in Divergences, t \in TrustScores}
    \cup {[risk_factors |-> r, trust_scores |-> t] :
              r \in RiskFactorLists, t \in TrustScores}

\* The questions in the order they are appended.
SpreadQuestions(context) ==
    IF \E k \in 1..Len(context.risk_factors) : context.risk_factors[k] = "FD01"
    THEN <<[about |-> "spread", priority |-> "high", exchange |-> 0]>>
    ELSE <<>>

DivergenceQuestions(context) ==
    IF "divergence" \in DOMAIN context /\ context.divergence.has_divergence
    THEN <<[about |-> "divergence", priority |-> "high", exchange |-> 0]>>
    ELSE <<>>

RECURSIVE FeedQuestions(_, _)
FeedQuestions(scores, k) ==
    IF k > Len(scores) THEN <<>>
    ELSE (IF scores[k] < LowTrust
          THEN <<[about |-> "feed", priority |-> "medium", exchange |-> k]>>
          ELSE <<>>) \o FeedQuestions(scores, k + 1)

\* The place in the alphabet of the first letter of a priority: the
\* priorities are compared as strings, and 'high' < 'medium'.
FirstLetter == [high |-> 8, medium |-> 13]
StrLess(a, b) == FirstLetter[a] < FirstLetter[b]

\* key=lambda x: x['priority']
KeyLess(a, b) == StrLess(a, b)

\* sorted(questions, key=..., reverse=True): the greatest key first, the
\* questions of equal key in the order they had.
RECURSIVE SortedReverse(_)
SortedReverse(qs) ==
    IF qs = <<>> THEN <<>>
    ELSE LET i == CHOOSE j \in 1..Len(qs) :
                      /\ \A k \in 1..Len(qs) : ~KeyLess(qs[j].priority, qs[k].priority)
                      /\ \A k \in 1..(j - 1) : KeyLess(qs[k].priority, qs[j].priority)
         IN  <<qs[i]>> \o SortedReverse(SubSeq(qs, 1, i - 1)
                                           \o SubSeq(qs, i + 1, Len(qs)))

GenerateQuestionsFromContext(context) ==
    SortedReverse(SpreadQuestions(context) \o DivergenceQuestions(context)
                      \o FeedQuestions(context.trust_scores, 1))

\* questions = questionnaire.generate_questions_from_context(context)
CallGenerateQuestions ==
    /\ Takes({"risk_factors", "divergence", "trust_scores"})
    /\ Returned("generate_questions_from_context",
                [questions |-> GenerateQuestionsFromContext(call.args)])

\* _run_interactive_session: the context has no divergence, and the first
\* three questions are put to the trader.
RunInteractiveSession ==
    /\ Takes({"risk_factors", "trust_scores"})
    /\ LET questions == GenerateQuestionsFromContext(call.args)
       IN  Returned("_run_interactive_session",
                    [questions |-> questions,
                     asked |-> SubSeq(questions, 1,
                                      Min(TopQuestions, Len(questions)))])

InitPortal ==
    /\ pc = "portal"
    /\ initial_capital = DefaultInitialCapital
    /\ price_data = <<>>
    /\ entries = <<>>
    /\ exits = <<>>
    /\ portfolio = NewPortfolio(0)
    /\ results = NoResults
    /\ all_metrics = NoMetrics
    /\ alt = NoAlt
    /\ alt_portfolio = NewPortfolio(0)
    /\ call \in {[fn |-> "none", args |-> a] : a \in DetectorArgs \cup QuestionArgs}
    /\ multi = NoMulti

NextPortal ==
    \/ DetectDivergenceReturns
    \/ DetectDivergenceRaises
    \/ CallGenerateQuestions
    \/ RunInteractiveSession

SpecPortal == InitPortal /\ [][NextPortal]_vars

(***************************************************************************)
(* Claims on the detector and the questionnaire.                           *)
(***************************************************************************)
\* The two fetches of a detect_divergence call delivered their data.
Fetched ==
    /\ Called("detect_divergence")
    /\ call.args.news.status = "ok"
    /\ call.args.quote.status = "ok"

\* Sum and count of the article sentiments of the call; the average is 0
\* when there is none.
SentimentTotal == Sum(call.args.news.items)
SentimentCount == Max(Len(call.args.news.items), 1)

\* C25: has_divergence is true exactly when the average sentiment and the
\* price disagree beyond the threshold: BULLISH when the sentiment is below
\* -threshold and the price change is positive, BEARISH when the sentiment
\* is above threshold and the price is falling; otherwise has_divergence
\* is false, divergence_type is None, severity is NONE and risk_code is
\* None.
C25_DivergenceWhenOpposed ==
    Fetched =>
        LET r == call.result
            threshold == call.args.threshold
            dp == call.args.quote.dp
            bullish == SentimentTotal < (-threshold) * SentimentCount /\ dp > 0
            bearish == SentimentTotal > threshold * SentimentCount /\ dp < 0
        IN  /\ r.has_divergence <=> (bullish \/ bearish)
            /\ r.divergence_type = "BULLISH" <=> bullish
            /\ r.divergence_type = "BEARISH" <=> bearish
            /\ ~r.has_divergence =>
                  /\ r.divergence_type = "None"
                  /\ r.severity = "NONE"
                  /\ r.risk_code = "None"

\* What holds of the source: BEARISH is reported for a sentiment above the
\* threshold whenever the price change is not positive, zero included.
BearishWhenNotRising ==
    Fetched =>
        LET r == call.result
            threshold == call.args.threshold
            dp == call.args.quote.dp
            bullish == SentimentTotal < (-threshold) * SentimentCount /\ dp > 0
            bearish == SentimentTotal > threshold * SentimentCount /\ dp <= 0
        IN  /\ r.has_divergence <=> (bullish \/ bearish)
            /\ r.divergence_type = "BULLISH" <=> bullish
            /\ r.divergence_type = "BEARISH" <=> bearish
            /\ ~r.has_divergence =>
                  /\ r.divergence_type = "None"
                  /\ r.severity = "NONE"
                  /\ r.risk_code = "None"

\* The fields of a result of detect_divergence.
ResultFields ==
    {"has_divergence", "divergence_type", "severity", "confidence",
     "risk_code", "sentiment_data", "price_data"}

\* C29: when the price fetch or the sentiment fetch fails, detect_divergence
\* returns a complete result: the error record of the fetch is in it, and
\* the confidence is 1 times 0.5 for each failed fetch and times 0.7 when
\* there are fewer than 5 articles, rounded to two decimals.
C29_FetchFailureStillReturns ==
    (/\ Called("detect_divergence")
     /\ \/ call.args.news.status = "error"
        \/ call.args.quote.status = "error") =>
        LET r == call.result
            news_failed == call.args.news.status = "error"
            quote_failed == call.args.quote.status = "error"
            few == news_failed \/ Len(call.args.news.items) < MinArticles
            expected == (IF few THEN FewArticlesFactor ELSE 10)
                          * (IF news_failed THEN ErrorFactor ELSE 10)
                          * (IF quote_failed THEN ErrorFactor ELSE 10)
        IN  /\ DOMAIN r = ResultFields
            /\ news_failed => "error" \in DOMAIN r.sentiment_data
            /\ quote_failed => "error" \in DOMAIN r.price_data
            /\ 10 * r.confidence - expected \in -9..9

\* What holds of the source: C29 when only the sentiment fetch fails.
SentimentFailureStillReturns ==
    (/\ Called("detect_divergence")
     /\ call.args.news.status = "error"
     /\ call.args.quote.status = "ok") =>
        /\ DOMAIN call.result = ResultFields
        /\ call.result.sentiment_data.error = FetchError
        /\ call.result.confidence = 35
        /\ ~call.result.has_divergence

\* The questions returned by the call.
Questions == call.result.questions

\* C30: the questions are returned with every question of priority high
\* before every question of priority medium, so the first three, which the
\* caller asks, hold no medium question while a high one is left out.
C30_HighBeforeMedium ==
    /\ Called("generate_questions_from_context") =>
          \A i, j \in 1..Len(Questions) :
              (Questions[i].priority = "high" /\ Questions[j].priority = "medium")
                  => i < j
    /\ Called("_run_interactive_session") =>
          ~ /\ \E i \in 1..Len(call.result.asked) :
                   call.result.asked[i].priority = "medium"
            /\ \E j \in (Len(call.result.asked) + 1)..Len(Questions) :
                   Questions[j].priority = "high"

\* What holds of the source: the medium questions come first.
MediumBeforeHigh ==
    (Called("generate_questions_from_context")
        \/ Called("_run_interactive_session")) =>
        \A i, j \in 1..Len(Questions) :
            (Questions[i].priority = "medium" /\ Questions[j].priority = "high")
                => i < j

=============================================================================
